---- MODULE Spec2Model ----
(***************************************************************************)
(* readmorecode.dev: puzzle assembly, response parsing, persistence, the   *)
(* in-memory puzzle cache and the grading surface, as state machines.      *)
(*                                                                         *)
(* The module holds several specifications over one set of variables; each *)
(* specification drives one part of the program and leaves the variables   *)
(* of the other parts at their idle value.                                 *)
(***************************************************************************)
EXTENDS Integers, Sequences, FiniteSets, TLC

VARIABLES
    asm,        \* assembly harness: the parsed model object, the file's line count, and the result
    px,         \* parser harness: the raw model output and what extractJsonObject made of it
    store,      \* the puzzles table: its rows in insertion order
    dbLog,      \* what the callers of the table saw: the puzzle first accepted under each
                \* puzzleId, and the last insert with its outcome
    puzzleCache, \* the in-memory puzzle cache: its entries in insertion order
    gen,        \* generation harness: what each run of generatePuzzle ended with
    grading,    \* gradingKeyIndex and gradingModelIndex of lib/groq
    web         \* the server's callers: the puzzle ids handed out, the evictions so far,
                \* and the last request with its response

vars == <<asm, px, store, dbLog, puzzleCache, gen, grading, web>>

(***************************************************************************)
(* JavaScript values.  A number is kept as twice its value (field h), so   *)
(* that x.5 is representable: 3 is Num(6), 2.5 is Num(5).                  *)
(***************************************************************************)
Undefined == [t |-> "undefined"]
Null == [t |-> "null"]
NaN == [t |-> "nan"]
Num(h) == [t |-> "num", h |-> h]
Whole(n) == Num(2 * n)
\* a string holds its characters, each a one-character string
JStr(cs) == [t |-> "str", cs |-> cs]
Bool(b) == [t |-> "bool", b |-> b]

\* a ?? b
Nullish(a, b) == IF a.t \in {"undefined", "null"} THEN b ELSE a

\* typeof v === "number"
TypeofNumber(v) == v.t \in {"num", "nan"}

\* Boolean(v)
Truthy(v) ==
    CASE v.t = "num" -> v.h # 0
      [] v.t = "bool" -> v.b
      [] v.t = "str" -> v.cs # <<>>
      [] v.t \in {"undefined", "null", "nan"} -> FALSE
      [] OTHER -> TRUE

NumberIsInteger(v) == v.t = "num" /\ v.h % 2 = 0

\* a < b on numbers; every comparison with NaN is false
NumLess(a, b) == a.t = "num" /\ b.t = "num" /\ a.h < b.h

MathMin(a, b) ==
    IF a.t = "nan" \/ b.t = "nan" THEN NaN
    ELSE IF a.h <= b.h THEN a ELSE b

MathMax(a, b) ==
    IF a.t = "nan" \/ b.t = "nan" THEN NaN
    ELSE IF a.h >= b.h THEN a ELSE b

(***************************************************************************)
(* Text.  A string is a sequence of characters, each a one-character       *)
(* string; the two control characters a JSON escape can stand for and the  *)
(* model does not otherwise use are the tokens "<BS>" and "<FF>".          *)
(***************************************************************************)
DQ == "\""
SQ == "'"
BSL == "\\"
NL == "\n"
CR == "\r"
TAB == "\t"
\* the markdown fence character
BT == "<backtick>"

\* \s of a regular expression, String.prototype.trim, JSON whitespace
IsWs(c) == c \in {" ", NL, CR, TAB}

\* Local([v \in {e} |-> body]) is body with v the value of e, computed once: a local
\* constant of the code
Local(f) == f[CHOOSE v \in DOMAIN f : TRUE]

Min(S) == CHOOSE x \in S : \A y \in S : x <= y
Max(S) == CHOOSE x \in S : \A y \in S : x >= y

\* first index >= i that holds no whitespace, Len(s) + 1 when there is none
AfterWs(s, i) == Min({k \in i .. Len(s) : ~IsWs(s[k])} \cup {Len(s) + 1})

\* s.trim()
Trim(s) ==
    Local([keep \in {{k \in 1 .. Len(s) : ~IsWs(s[k])}} |->
        IF keep = {} THEN <<>> ELSE SubSeq(s, Min(keep), Max(keep))])

\* s.indexOf(c), 1-based, 0 for -1
IndexOf(s, c) == Min({k \in 1 .. Len(s) : s[k] = c} \cup {Len(s) + 1}) % (Len(s) + 1)

\* toLowerCase and the i flag, over the capital letters of the model's texts
Lower(c) ==
    CASE c = "T" -> "t" [] c = "H" -> "h" [] c = "I" -> "i"
      [] c = "N" -> "n" [] c = "K" -> "k" [] c = "S" -> "s" [] OTHER -> c

toLowerCase(s) == [k \in 1 .. Len(s) |-> Lower(s[k])]

\* s.endsWith(e)
EndsWith(s, e) == Len(e) <= Len(s) /\ SubSeq(s, Len(s) - Len(e) + 1, Len(s)) = e

OpenTag == <<"<", "t", "h", "i", "n", "k", ">">>
CloseTag == <<"<", "/", "t", "h", "i", "n", "k", ">">>

MatchAt(s, i, tag) ==
    /\ i + Len(tag) - 1 <= Len(s)
    /\ \A k \in 1 .. Len(tag) : Lower(s[i + k - 1]) = tag[k]

\* the last closing marker at or after j, 0 when there is none
FindCloseLast(s, j) ==
    Max({k \in j .. Len(s) : MatchAt(s, k, CloseTag)} \cup {0})

\* the nearest closing marker at or after j, 0 when there is none
FindClose(s, j) ==
    Min({k \in j .. Len(s) : MatchAt(s, k, CloseTag)} \cup {Len(s) + 1}) % (Len(s) + 1)

\* first index >= i whose character is in the set, Len(s) + 1 when there is none
NextOf(s, i, chars) == Min({k \in i .. Len(s) : s[k] \in chars} \cup {Len(s) + 1})

\* content.replace(/<think>[\s\S]*?<\/think>/gi, ""); the characters between two
\* candidate openings are copied in one step
RECURSIVE RemoveThinkBlocks(_, _)
RemoveThinkBlocks(s, i) ==
    Local([k \in {NextOf(s, i, {"<"})} |->
        IF k > Len(s) THEN SubSeq(s, i, Len(s))
        ELSE IF ~MatchAt(s, k, OpenTag) THEN SubSeq(s, i, k) \o RemoveThinkBlocks(s, k + 1)
        ELSE Local([close \in {FindClose(s, k + Len(OpenTag))} |->
                  IF close = 0 THEN SubSeq(s, i, k) \o RemoveThinkBlocks(s, k + 1)
                 ELSE SubSeq(s, i, k - 1) \o RemoveThinkBlocks(s, close + Len(CloseTag))])])

stripThinkTags(content) == Trim(RemoveThinkBlocks(content, 1))

(***************************************************************************)
(* JSON.parse: objects, arrays, strings with the two-character escapes,    *)
(* integers, true, false, null.  Values are JavaScript values; a string    *)
(* value holds its decoded characters in field cs, an object is a function *)
(* from its keys.  \u escapes, fractions and exponents are outside the     *)
(* alphabet of the model.                                                  *)
(***************************************************************************)
JArr(elems) == [t |-> "arr", a |-> elems]
JObj(members) == [t |-> "obj", o |-> members]
EmptyMembers == [k \in {} |-> Null]
PutMember(members, key, val) ==
    [k \in DOMAIN members \cup {key} |-> IF k = key THEN val ELSE members[k]]

ParseFail == [ok |-> FALSE]
ParseOk(v, next) == [ok |-> TRUE, val |-> v, pos |-> next]

Digits == {"0", "1", "2", "3", "4", "5", "6", "7", "8", "9"}
DigitValue(c) ==
    CASE c = "0" -> 0 [] c = "1" -> 1 [] c = "2" -> 2 [] c = "3" -> 3 [] c = "4" -> 4
      [] c = "5" -> 5 [] c = "6" -> 6 [] c = "7" -> 7 [] c = "8" -> 8 [] c = "9" -> 9

Escapes == {DQ, BSL, "/", "b", "f", "n", "r", "t"}
Unescape(c) ==
    CASE c = "n" -> NL [] c = "r" -> CR [] c = "t" -> TAB
      [] c = "b" -> "<BS>" [] c = "f" -> "<FF>" [] OTHER -> c

\* the characters of a string literal after its opening quote; a run of plain
\* characters is taken in one step
RECURSIVE ParseStringBody(_, _, _)
ParseStringBody(s, i, acc) ==
    Local([k \in {NextOf(s, i, {DQ, BSL, NL, CR, TAB})} |->
        IF k > Len(s) THEN ParseFail
        ELSE IF s[k] = DQ THEN ParseOk(acc \o SubSeq(s, i, k - 1), k + 1)
        ELSE IF s[k] = BSL /\ k + 1 <= Len(s) /\ s[k + 1] \in Escapes
        THEN ParseStringBody(s, k + 2, (acc \o SubSeq(s, i, k - 1)) \o <<Unescape(s[k + 1])>>)
        ELSE ParseFail])

RECURSIVE ParseDigits(_, _, _)
ParseDigits(s, i, n) ==
    IF i <= Len(s) /\ s[i] \in Digits
    THEN ParseDigits(s, i + 1, 10 * n + DigitValue(s[i]))
    ELSE ParseOk(n, i)

\* Number(cs) of a string: whitespace is trimmed, "" is 0, an optionally signed run
\* of digits is its value, anything else NaN
StringToNumber(cs) ==
    Local([s \in {Trim(cs)} |->
        IF s = <<>> THEN Whole(0)
        ELSE Local([d \in {IF s[1] \in {"-", "+"} THEN Tail(s) ELSE s} |->
                  IF d # <<>> /\ \A k \in 1 .. Len(d) : d[k] \in Digits
                 THEN Whole((IF s[1] = "-" THEN -1 ELSE 1) * ParseDigits(d, 1, 0).val)
                 ELSE NaN])])

\* Number(v)
ToNumber(v) ==
    CASE v.t = "num" -> v
      [] v.t = "nan" -> NaN
      [] v.t = "undefined" -> NaN
      [] v.t = "null" -> Whole(0)
      [] v.t = "bool" -> IF v.b THEN Whole(1) ELSE Whole(0)
      [] v.t = "str" -> StringToNumber(v.cs)
      [] v.t = "arr" -> IF v.a = <<>> THEN Whole(0) ELSE NaN
      [] OTHER -> NaN

\* obj[key]; a missing key, and any key of a non-object, reads as undefined
Prop(obj, key) ==
    IF obj.t = "obj" /\ key \in DOMAIN obj.o THEN obj.o[key] ELSE Undefined

\* the keys the program reads
K_question == <<"q", "u", "e", "s", "t", "i", "o", "n">>
K_Question == <<"Q", "u", "e", "s", "t", "i", "o", "n">>
K_startLine == <<"s", "t", "a", "r", "t", "L", "i", "n", "e">>
K_start_line == <<"s", "t", "a", "r", "t", "_", "l", "i", "n", "e">>
K_endLine == <<"e", "n", "d", "L", "i", "n", "e">>
K_end_line == <<"e", "n", "d", "_", "l", "i", "n", "e">>
K_answer == <<"a", "n", "s", "w", "e", "r">>
K_explanation == <<"e", "x", "p", "l", "a", "n", "a", "t", "i", "o", "n">>
K_gradingRubric == <<"g", "r", "a", "d", "i", "n", "g", "R", "u", "b", "r", "i", "c">>
K_grading_rubric == <<"g", "r", "a", "d", "i", "n", "g", "_", "r", "u", "b", "r", "i", "c">>
K_insufficientContextAllowed ==
    <<"i", "n", "s", "u", "f", "f", "i", "c", "i", "e", "n", "t",
      "C", "o", "n", "t", "e", "x", "t", "A", "l", "l", "o", "w", "e", "d">>
K_insufficient_context_allowed ==
    <<"i", "n", "s", "u", "f", "f", "i", "c", "i", "e", "n", "t", "_",
      "c", "o", "n", "t", "e", "x", "t", "_", "a", "l", "l", "o", "w", "e", "d">>

\* getKey(obj, snake, camel)
getKey(obj, snake, camel) == Nullish(Prop(obj, snake), Prop(obj, camel))

DigitChars == <<"0", "1", "2", "3", "4", "5", "6", "7", "8", "9">>

\* the decimal digits of a natural number
RECURSIVE DecimalChars(_)
DecimalChars(n) ==
    IF n < 10 THEN <<DigitChars[n + 1]>> ELSE DecimalChars(n \div 10) \o <<DigitChars[(n % 10) + 1]>>

\* Number.prototype.toString for the numbers of the model (wholes and halves)
NumberChars(h) ==
    (IF h < 0 THEN <<"-">> ELSE <<>>)
    \o DecimalChars((IF h < 0 THEN -h ELSE h) \div 2)
    \o (IF h % 2 = 0 THEN <<>> ELSE <<".", "5">>)

\* String(v): a string is itself; the other values are written as one token
ToStringJS(v) ==
    CASE v.t = "str" -> v
      [] v.t = "undefined" -> [t |-> "str", cs |-> <<"undefined">>]
      [] v.t = "null" -> [t |-> "str", cs |-> <<"null">>]
      [] v.t = "bool" -> [t |-> "str", cs |-> IF v.b THEN <<"true">> ELSE <<"false">>]
      [] v.t = "nan" -> [t |-> "str", cs |-> <<"NaN">>]
      [] v.t = "num" -> [t |-> "str", cs |-> NumberChars(v.h)]
      [] OTHER -> [t |-> "str", cs |-> <<"[object]">>]

\* -? (0 | [1-9][0-9]*)
ParseNumber(s, i) ==
    Local([d \in {IF s[i] = "-" THEN i + 1 ELSE i} |->
        IF d > Len(s) \/ s[d] \notin Digits THEN ParseFail
        ELSE IF s[d] = "0" THEN ParseOk(Whole(0), d + 1)
        ELSE Local([r \in {ParseDigits(s, d, 0)} |->
                  ParseOk(Whole((IF d > i THEN -1 ELSE 1) * r.val), r.pos)])])

MatchLiteral(s, i, lit) ==
    /\ i + Len(lit) - 1 <= Len(s)
    /\ SubSeq(s, i, i + Len(lit) - 1) = lit

RECURSIVE ParseValue(_, _)
RECURSIVE ParseMembers(_, _, _)
RECURSIVE ParseElements(_, _, _)

\* a string body's characters as a string value
StringValue(r) == IF r.ok THEN ParseOk(JStr(r.val), r.pos) ELSE ParseFail

ParseValue(s, i0) ==
    Local([i \in {AfterWs(s, i0)} |->
        IF i > Len(s) THEN ParseFail
        ELSE IF s[i] = DQ THEN StringValue(ParseStringBody(s, i + 1, <<>>))
        ELSE IF s[i] = "{"
             THEN Local([j \in {AfterWs(s, i + 1)} |->
                       IF j <= Len(s) /\ s[j] = "}" THEN ParseOk(JObj(EmptyMembers), j + 1)
                      ELSE ParseMembers(s, j, EmptyMembers)])
        ELSE IF s[i] = "["
             THEN Local([j \in {AfterWs(s, i + 1)} |->
                       IF j <= Len(s) /\ s[j] = "]" THEN ParseOk(JArr(<<>>), j + 1)
                      ELSE ParseElements(s, j, <<>>)])
        ELSE IF s[i] \in Digits \cup {"-"} THEN ParseNumber(s, i)
        ELSE IF MatchLiteral(s, i, <<"t", "r", "u", "e">>) THEN ParseOk(Bool(TRUE), i + 4)
        ELSE IF MatchLiteral(s, i, <<"f", "a", "l", "s", "e">>) THEN ParseOk(Bool(FALSE), i + 5)
        ELSE IF MatchLiteral(s, i, <<"n", "u", "l", "l">>) THEN ParseOk(Null, i + 4)
        ELSE ParseFail])

\* "key" : value, then a comma and more members or the closing brace
ParseMembers(s, i, members) ==
    IF i > Len(s) \/ s[i] # DQ THEN ParseFail
    ELSE
    Local([key \in {ParseStringBody(s, i + 1, <<>>)} |->
        IF ~key.ok THEN ParseFail
        ELSE
    Local([colon \in {AfterWs(s, key.pos)} |->
        IF colon > Len(s) \/ s[colon] # ":" THEN ParseFail
        ELSE
    Local([v \in {ParseValue(s, colon + 1)} |->
        IF ~v.ok THEN ParseFail
        ELSE
    Local([e \in {AfterWs(s, v.pos)} |->
        IF e > Len(s) THEN ParseFail
        ELSE IF s[e] = "}" THEN ParseOk(JObj(PutMember(members, key.val, v.val)), e + 1)
        ELSE IF s[e] = ","
        THEN ParseMembers(s, AfterWs(s, e + 1), PutMember(members, key.val, v.val))
        ELSE ParseFail])])])])

ParseElements(s, i, elems) ==
    Local([v \in {ParseValue(s, i)} |->
        IF ~v.ok THEN ParseFail
        ELSE
    Local([e \in {AfterWs(s, v.pos)} |->
        IF e > Len(s) THEN ParseFail
        ELSE IF s[e] = "]" THEN ParseOk(JArr(Append(elems, v.val)), e + 1)
        ELSE IF s[e] = "," THEN ParseElements(s, e + 1, Append(elems, v.val))
        ELSE ParseFail])])

\* JSON.parse(text): the value, or Thrown
Thrown == [t |-> "thrown"]
JsonParse(text) ==
    Local([r \in {ParseValue(text, 1)} |->
        IF r.ok /\ AfterWs(text, r.pos) > Len(text) THEN r.val ELSE Thrown])

(***************************************************************************)
(* extractJsonObject                                                       *)
(***************************************************************************)
\* the scan for the brace that closes the first one; 0 when there is none.  The scan
\* goes from one character that changes its state to the next: inside a string the
\* backslash and the quote that opened it, outside the quotes and the braces.
\* the last closing brace of the text, 0 when there is none
MatchingBraceLast(s, i, depth, inString, escapeNext, quoteChar) ==
    Max({k \in i .. Len(s) : s[k] = "}"} \cup {0})

RECURSIVE MatchingBrace(_, _, _, _, _, _)
MatchingBrace(s, i, depth, inString, escapeNext, quoteChar) ==
    IF i > Len(s) THEN 0
    ELSE IF inString /\ escapeNext
    THEN MatchingBrace(s, i + 1, depth, TRUE, FALSE, quoteChar)
    ELSE IF inString
    THEN Local([k \in {NextOf(s, i, {BSL, quoteChar})} |->
              IF k > Len(s) THEN 0
             ELSE MatchingBrace(s, k + 1, depth, s[k] = BSL, s[k] = BSL, quoteChar)])
    ELSE Local([k \in {NextOf(s, i, {DQ, SQ, "{", "}"})} |->
              IF k > Len(s) THEN 0
             ELSE IF s[k] = "}" /\ depth - 1 = 0 THEN k
             ELSE IF s[k] = "}" THEN MatchingBrace(s, k + 1, depth - 1, FALSE, escapeNext, quoteChar)
             ELSE IF s[k] = "{" THEN MatchingBrace(s, k + 1, depth + 1, FALSE, escapeNext, quoteChar)
             ELSE MatchingBrace(s, k + 1, depth, TRUE, escapeNext, s[k])])

\* jsonStr.replace(/,(\s*[}\]])/g, "$1"), from comma to comma
RECURSIVE RemoveTrailingCommas(_, _)
RemoveTrailingCommas(s, i) ==
    Local([c \in {NextOf(s, i, {","})} |->
        IF c > Len(s) THEN SubSeq(s, i, Len(s))
        ELSE Local([k \in {AfterWs(s, c + 1)} |->
                  IF k <= Len(s) /\ s[k] \in {"}", "]"}
                 THEN SubSeq(s, i, c - 1) \o SubSeq(s, c + 1, k)
                      \o RemoveTrailingCommas(s, k + 1)
                 ELSE SubSeq(s, i, c) \o RemoveTrailingCommas(s, c + 1)])])

\* the scan of escapeNewlinesInJsonStrings, from one character that changes its
\* state or is rewritten to the next
RECURSIVE EscapeNewlinesFrom(_, _, _, _)
EscapeNewlinesFrom(s, i, inString, escapeNext) ==
    IF i > Len(s) THEN <<>>
    ELSE IF escapeNext THEN <<s[i]>> \o EscapeNewlinesFrom(s, i + 1, inString, FALSE)
    ELSE Local([k \in {NextOf(s, i, IF inString THEN {BSL, DQ, NL, CR} ELSE {DQ})} |->
              IF k > Len(s) THEN SubSeq(s, i, Len(s))
             ELSE IF s[k] = BSL
             THEN SubSeq(s, i, k) \o EscapeNewlinesFrom(s, k + 1, inString, TRUE)
             ELSE IF s[k] = DQ
             THEN SubSeq(s, i, k) \o EscapeNewlinesFrom(s, k + 1, ~inString, FALSE)
             ELSE IF s[k] = CR /\ k + 1 <= Len(s) /\ s[k + 1] = NL
             THEN SubSeq(s, i, k - 1) \o <<BSL, "n">>
                  \o EscapeNewlinesFrom(s, k + 2, inString, FALSE)
             ELSE SubSeq(s, i, k - 1) \o <<BSL, "n">>
                  \o EscapeNewlinesFrom(s, k + 1, inString, FALSE)])

escapeNewlinesInJsonStrings(jsonStr) == EscapeNewlinesFrom(jsonStr, 1, FALSE, FALSE)

extractJsonObject(raw) ==
    Local([cleaned \in {Trim(stripThinkTags(raw))} |->
    Local([first \in {IndexOf(cleaned, "{")} |->
        IF first = 0 THEN Null
        ELSE
    Local([end \in {MatchingBrace(cleaned, first, 0, FALSE, FALSE, DQ)} |->
        IF end = 0 THEN Null
        ELSE
    Local([parsed \in {JsonParse(escapeNewlinesInJsonStrings(
             RemoveTrailingCommas(SubSeq(cleaned, first, end), 1)))} |->
         IF parsed = Thrown THEN Null ELSE parsed])])])])

(***************************************************************************)
(* Puzzle assembly: the line span of the answer key.                       *)
(***************************************************************************)
NoResult == [kind |-> "none"]
Regenerate == [kind |-> "regenerate"]
AnswerKey(s, e) == [kind |-> "answerKey", startLine |-> s, endLine |-> e]

\* an assembly that keeps a reversed pair as declared
SwapNever(s, e) == AnswerKey(s, e)

\* swap when reversed
SwapIfReversed(s, e) == IF NumLess(e, s) THEN AnswerKey(e, s) ELSE AnswerKey(s, e)

\* a clamp that forgets the lower bound
ClampLineNoFloor(x, lineCount) == MathMin(x, lineCount)

\* Math.max(1, Math.min(x, lineCount))
ClampLine(x, lineCount) == MathMax(Whole(1), MathMin(x, lineCount))

\* objToLLMPuzzleRaw / parsedToGenerated: the gate in front of assembly
objToLLMPuzzleRaw(obj) ==
    Local([question \in {Nullish(Prop(obj, K_question), Prop(obj, K_Question))} |->
    Local([sl \in {ToNumber(Nullish(Prop(obj, K_startLine), Prop(obj, K_start_line)))} |->
    Local([el \in {ToNumber(Nullish(Prop(obj, K_endLine), Prop(obj, K_end_line)))} |->
        IF question.t # "str" THEN Null
        ELSE IF ~NumberIsInteger(sl) \/ ~NumberIsInteger(el)
                \/ NumLess(sl, Whole(1)) \/ NumLess(el, Whole(1)) THEN Null
        ELSE [t |-> "raw", question |-> question, startLine |-> sl, endLine |-> el,
              answer |-> getKey(obj, K_answer, K_answer),
              explanation |-> getKey(obj, K_explanation, K_explanation),
              gradingRubric |-> getKey(obj, K_gradingRubric, K_grading_rubric),
              insufficientContextAllowed |->
                  Truthy(getKey(obj, K_insufficientContextAllowed,
                                K_insufficient_context_allowed))]])])])

\* regenerate script: the same gate under another name
parsedToGenerated(parsed) == objToLLMPuzzleRaw(parsed)

\* generatePuzzle, the span of the assembled answer key
AssembleSpan(parsed, lineCount) ==
    SwapIfReversed(ClampLine(Nullish(parsed.startLine, Whole(1)), lineCount),
                   ClampLine(Nullish(parsed.endLine, Whole(1)), lineCount))

\* Number(x) || 1
NumberOrOne(x) == IF Truthy(ToNumber(x)) THEN ToNumber(x) ELSE Whole(1)

\* regenerate script
toAnswerKey(parsed, lineCount) ==
    SwapIfReversed(ClampLine(NumberOrOne(parsed.startLine), lineCount),
                   ClampLine(NumberOrOne(parsed.endLine), lineCount))

\* repair script
repairJsonToAnswerKey(parsed, lineCount) ==
    LET startLine == IF TypeofNumber(Prop(parsed, K_startLine))
                     THEN Prop(parsed, K_startLine) ELSE Whole(1)
        endLine == IF TypeofNumber(Prop(parsed, K_endLine))
                   THEN Prop(parsed, K_endLine) ELSE Whole(1)
    IN  SwapIfReversed(ClampLine(startLine, lineCount), ClampLine(endLine, lineCount))

(***************************************************************************)
(* Assembly harness: every declared pair of line values over every file    *)
(* length, through each of the three assemblers.                           *)
(***************************************************************************)
MaxLineCount == 3

\* twice the declared value: -1, -0.5, 0, 0.5, 1, ... MaxLineCount + 1
DeclaredNumbers == {Num(h) : h \in -2 .. 2 * (MaxLineCount + 1)}
Absent == [t |-> "absent"]
DeclaredLines ==
    DeclaredNumbers \cup {Absent, Null, JStr(<<"3">>), JStr(<<"x">>), Bool(TRUE)}
AltLines == {Absent, Whole(2)}
Questions == {JStr(<<"Q">>), Absent}

\* the object with the members that are present
ObjectOf(fields) ==
    JObj([k \in {f \in DOMAIN fields : fields[f] # Absent} |-> fields[k]])

ModelObjects ==
    {ObjectOf((K_question :> q) @@ (K_startLine :> s) @@ (K_start_line :> s2)
              @@ (K_endLine :> e)) :
        q \in Questions, s \in DeclaredLines, s2 \in AltLines, e \in DeclaredLines}

AsmIdle == asm = [by |-> "idle"]

AsmStart ==
    \E obj \in ModelObjects, n \in 1 .. MaxLineCount :
        asm = [obj |-> obj, lineCount |-> Whole(n), by |-> "none", result |-> NoResult]

\* generatePuzzle: parse gate, then clamp and swap
AssembleGenerate ==
    /\ asm.by = "none"
    /\ LET parsed == objToLLMPuzzleRaw(asm.obj)
       IN  asm' = [asm EXCEPT !.by = "generate",
                              !.result = IF parsed = Null THEN Regenerate
                                         ELSE AssembleSpan(parsed, asm.lineCount)]

\* regenerate-puzzles: parsedToGenerated (same gate), then toAnswerKey
AssembleRegenerate ==
    /\ asm.by = "none"
    /\ LET parsed == parsedToGenerated(asm.obj)
       IN  asm' = [asm EXCEPT !.by = "regenerate",
                              !.result = IF parsed = Null THEN Regenerate
                                         ELSE toAnswerKey(parsed, asm.lineCount)]

\* repair-puzzles: JSON.parse output goes to repairJsonToAnswerKey ungated
AssembleRepair ==
    /\ asm.by = "none"
    /\ asm' = [asm EXCEPT !.by = "repair",
                          !.result = repairJsonToAnswerKey(asm.obj, asm.lineCount)]

AsmNext ==
    (AssembleGenerate \/ AssembleRegenerate \/ AssembleRepair) /\ UNCHANGED <<px, store, dbLog, puzzleCache, gen, grading, web>>

\* C1: every answer key an assembler produced (generation, regeneration, repair)
\* has 1 <= startLine <= endLine <= the file's line count, whatever was declared.
AnswerKeyInBounds ==
    asm.result.kind = "answerKey" =>
        /\ asm.result.startLine.t = "num"
        /\ asm.result.endLine.t = "num"
        /\ 2 <= asm.result.startLine.h
        /\ asm.result.startLine.h <= asm.result.endLine.h
        /\ asm.result.endLine.h <= asm.lineCount.h

\* C1 witness: a reversed pair, both values beyond the file's last line, assembled
AnswerKeyReversedBeyondEnd ==
    /\ asm.by = "generate"
    /\ asm.result.kind = "answerKey"
    /\ asm.lineCount = Whole(MaxLineCount - 1)
    /\ Prop(asm.obj, K_startLine) = Whole(MaxLineCount + 1)
    /\ Prop(asm.obj, K_endLine) = Whole(MaxLineCount)

(***************************************************************************)
(* Parser harness: one object text, in or out of a markdown fence, with    *)
(* prose before and after it, handed to extractJsonObject.                 *)
(***************************************************************************)
MaxBodyPieces == 2

RECURSIVE Flatten(_)
Flatten(pieces) == IF pieces = <<>> THEN <<>> ELSE Head(pieces) \o Flatten(Tail(pieces))

\* what a string literal of the model may hold between its quotes
BodyPieces ==
    {<<"a">>, <<",">>, <<"}">>, <<"{">>, <<SQ>>, <<" ">>, <<BSL, "n">>, <<BSL, DQ>>, <<NL>>,
     <<CR>>, <<",", NL>>}

Bodies == {Flatten(ps) : ps \in UNION {[1 .. n -> BodyPieces] : n \in 0 .. MaxBodyPieces}}

StringMember(body) == <<"{", DQ, "k", DQ, ":", DQ>> \o body \o <<DQ, "}">>

ObjectTexts ==
    {StringMember(b) : b \in Bodies} \cup
    { <<"{", "}">>,
      <<"{", DQ, "k", DQ, ":", "1", "}">>,
      <<"{", DQ, "k", DQ, ":", "1", ",", "}">>,
      <<"{", DQ, "k", DQ, ":", "[", "1", ",", " ", "2", "]", ",", NL, DQ, "j", DQ, ":", "{", "}", "}">>,
      <<"{", DQ, "k", DQ, ":", "t", "r", "u", "e", "}">>,
      <<"{", DQ, "k", DQ, ":", "1">>,
      <<"{", DQ, "k", DQ, ":", DQ, "}">>,
      <<"{", SQ, "k", SQ, ":", SQ, "}", SQ, "}">>,
      <<"{", "k", ":", "1", "}">>,
      <<"n", "o", "n", "e">> }

LeadingProse ==
    { <<>>,
      <<"o", "k", ":", NL>>,
      <<"i", "t", SQ, "s", " ">>,
      <<"t", "h", "e", " ", "{", "k", "}", " ">>,
      <<"<", "t", "h", "i", "n", "k", ">", "{", "<", "/", "t", "h", "i", "n", "k", ">", NL>> }

TrailingProse ==
    { <<>>,
      <<NL, "o", "k">>,
      <<" ", "}">>,
      <<" ", "{", DQ, "j", DQ, ":", "1", "}">> }

FenceOpen == <<BT, BT, BT, "j", "s", "o", "n", NL>>
FenceClose == <<NL, BT, BT, BT>>

RawOutput(lead, fenced, contents, trail) ==
    lead \o (IF fenced THEN FenceOpen \o contents \o FenceClose ELSE contents) \o trail

PxIdle == px = [done |-> TRUE, fenced |-> FALSE, result |-> Null]

PxStart ==
    \E lead \in LeadingProse, trail \in TrailingProse, contents \in ObjectTexts,
       fenced \in BOOLEAN :
        px = [lead |-> lead, trail |-> trail, contents |-> contents, fenced |-> fenced,
              raw |-> RawOutput(lead, fenced, contents, trail),
              done |-> FALSE, result |-> Null]

\* const obj = extractJsonObject(raw)
Extract ==
    /\ ~px.done
    /\ px' = [px EXCEPT !.done = TRUE, !.result = extractJsonObject(px.raw)]
    /\ UNCHANGED <<asm, store, dbLog, puzzleCache, gen, grading, web>>

(***************************************************************************)
(* Sanitizer harness: a text made of scratch-reasoning markers and other   *)
(* pieces, handed to stripThinkTags.                                       *)
(***************************************************************************)
MaxThinkPieces == 4

ThinkOpen == {OpenTag, <<"<", "T", "h", "i", "n", "k", ">">>}
ThinkClose == {CloseTag, <<"<", "/", "T", "H", "I", "N", "K", ">">>}

\* the pieces besides the markers: none of them, alone or next to another piece, makes
\* or completes a marker
ThinkOther == {<<"a">>, <<" ">>, <<NL>>, <<"<", "t", "h", "i", "n", "k">>}

ThinkPieces == ThinkOpen \cup ThinkClose \cup ThinkOther

ThinkStart ==
    \E ps \in UNION {[1 .. n -> ThinkPieces] : n \in 0 .. MaxThinkPieces} :
        px = [pieces |-> ps, text |-> Flatten(ps), done |-> FALSE, fenced |-> FALSE,
              result |-> Null]

\* stripThinkTags(content)
StripThink ==
    /\ ~px.done
    /\ px' = [px EXCEPT !.done = TRUE, !.result = JStr(stripThinkTags(px.text))]
    /\ UNCHANGED <<asm, store, dbLog, puzzleCache, gen, grading, web>>

(***************************************************************************)
(* The puzzles table.  puzzle_id is NOT NULL UNIQUE; id is the             *)
(* autoincrement primary key.  The JSON columns (repo, file, commit,       *)
(* answerKey) are kept as the value their text parses to: JSON.stringify   *)
(* drops the undefined members and JSON.parse reads them back as undefined.*)
(***************************************************************************)
\* `${owner}:${name}:${path}:${sha}`
PuzzleId(owner, name, path, sha) ==
    owner \o <<":">> \o name \o <<":">> \o path \o <<":">> \o sha

\* puzzlesTable.puzzleId .unique()
RowWith(rows, puzzleId) == {i \in 1 .. Len(rows) : rows[i].puzzleId = puzzleId}

NextRowId(rows) == IF rows = <<>> THEN 1 ELSE Max({rows[i].id : i \in 1 .. Len(rows)}) + 1

\* the row insertPuzzle writes for a puzzle
RowOf(puzzle, id) ==
    [id |-> id, puzzleId |-> puzzle.puzzleId, repo |-> puzzle.repo, file |-> puzzle.file,
     commit |-> puzzle.commit, question |-> puzzle.question, answerKey |-> puzzle.answerKey,
     explanation |-> puzzle.explanation, gradingRubric |-> puzzle.gradingRubric,
     category |-> puzzle.category, language |-> puzzle.language]

\* rowToPuzzle
rowToPuzzle(row) ==
    [puzzleId |-> row.puzzleId, repo |-> row.repo, file |-> row.file, commit |-> row.commit,
     question |-> row.question, answerKey |-> row.answerKey, explanation |-> row.explanation,
     gradingRubric |-> row.gradingRubric, category |-> row.category,
     language |-> row.language]

\* an insert that overwrites the conflicting row
insertPuzzleOverwriting(rows, puzzle) ==
    IF RowWith(rows, puzzle.puzzleId) # {}
    THEN [rows |-> [i \in 1 .. Len(rows) |->
                      IF rows[i].puzzleId = puzzle.puzzleId
                      THEN RowOf(puzzle, rows[i].id) ELSE rows[i]],
          error |-> "none"]
    ELSE [rows |-> Append(rows, RowOf(puzzle, NextRowId(rows))), error |-> "none"]

\* db.insert(puzzlesTable).values(...).onConflictDoNothing({ target: puzzleId })
\* the new rows, and the error the statement ends with
insertPuzzle(rows, puzzle) ==
    IF RowWith(rows, puzzle.puzzleId) # {} THEN [rows |-> rows, error |-> "none"]
    ELSE [rows |-> Append(rows, RowOf(puzzle, NextRowId(rows))), error |-> "none"]

(***************************************************************************)
(* generatePuzzle (lib/puzzle-generator): up to maxAttempts rounds of      *)
(* search, tree, file, commit and model calls.  The upstream services'     *)
(* answers to one round are a record; a run is given one record per round. *)
(***************************************************************************)
PUZZLE_CACHE_MAX == 50
MIN_LINES == 20
MinContentLength == 100
maxAttempts == 5

\* rng() answers h / 2 ** 32 for a 32-bit h, kept as its two 16-bit halves
TwoTo16 == 65536
U32(hi, lo) == [hi |-> hi, lo |-> lo]

\* the fractions n / RngDen that the harnesses draw
RngDen == 4
Fraction(n) == U32((n * TwoTo16) \div RngDen, 0)

\* Math.floor(rng() * n), for n below 2 ** 15
FloorTimes(rnd, n) == (rnd.hi * n + (rnd.lo * n) \div TwoTo16) \div TwoTo16

\* seed.charCodeAt(i)
CharCode(c) ==
    CASE c = "a" -> 97 [] c = "b" -> 98 [] c = ":" -> 58 [] c = "1" -> 49 [] c = "2" -> 50

\* h = (h << 5) - h + seed.charCodeAt(i); h |= 0, over the characters of the seed: the
\* 32 bits of 31 * h + code
RECURSIVE SeedHash(_, _)
SeedHash(seed, h) ==
    IF seed = <<>> THEN h
    ELSE SeedHash(Tail(seed),
                  U32((h.hi * 31 + (h.lo * 31 + CharCode(Head(seed))) \div TwoTo16) % TwoTo16,
                      (h.lo * 31 + CharCode(Head(seed))) % TwoTo16))

\* h = (h * 1664525 + 1013904223) >>> 0, with 1664525 = 25 * 2 ** 16 + 26125 and
\* 1013904223 = 15470 * 2 ** 16 + 62303
LcgStep(h) ==
    U32((h.hi * 26125 + h.lo * 25 + 15470 + (h.lo * 26125 + 62303) \div TwoTo16) % TwoTo16,
        (h.lo * 26125 + 62303) % TwoTo16)

\* what Math.random() answers: the draw at place pos of one of the streams the
\* runtime may produce
MathRandom(entropy, pos) ==
    IF entropy = 1 THEN U32(0, 0) ELSE U32((40000 + pos * 23456) % TwoTo16, pos)

\* a generator that is Math.random whatever the seed
seedRandomUnseeded(seed, entropy) == [seeded |-> FALSE, entropy |-> entropy, pos |-> 0]

\* seedRandom: Math.random without a seed, else the generator that starts at the
\* hash of the seed
seedRandom(seed, entropy) ==
    IF seed = <<>> THEN [seeded |-> FALSE, entropy |-> entropy, pos |-> 0]
    ELSE [seeded |-> TRUE, h |-> SeedHash(seed, U32(0, 0))]

\* rng(): the value drawn and the generator after the draw
Draw(rng) ==
    IF rng.seeded THEN [value |-> LcgStep(rng.h), rng |-> [rng EXCEPT !.h = LcgStep(@)]]
    ELSE [value |-> MathRandom(rng.entropy, rng.pos), rng |-> [rng EXCEPT !.pos = @ + 1]]

LANGUAGES_BY_CATEGORY ==
    [web |-> <<"TypeScript", "JavaScript">>, systems |-> <<"Rust">>, other |-> <<"Shell">>]

CategoryOrder == <<"web", "systems", "other">>

EXTENSIONS_BY_LANGUAGE ==
    [TypeScript |-> {<<".", "t", "s">>, <<".", "t", "s", "x">>},
     JavaScript |-> {<<".", "j", "s">>},
     Rust |-> {<<".", "r", "s">>}]

SeqRange(s) == {s[i] : i \in 1 .. Len(s)}

getCategoryForLanguage(lang) ==
    LET hits == {i \in 1 .. Len(CategoryOrder) :
                    lang \in SeqRange(LANGUAGES_BY_CATEGORY[CategoryOrder[i]])}
    IN  IF hits = {} THEN "other" ELSE CategoryOrder[Min(hits)]

getAllLanguages ==
    LANGUAGES_BY_CATEGORY.web \o LANGUAGES_BY_CATEGORY.systems \o LANGUAGES_BY_CATEGORY.other

isPathForLanguage(path, language) ==
    IF language \notin DOMAIN EXTENSIONS_BY_LANGUAGE THEN TRUE
    ELSE \E e \in EXTENSIONS_BY_LANGUAGE[language] : EndsWith(toLowerCase(path), e)

\* searchRepositories: the items, or the error thrown
searchRepositories(res) ==
    IF res.kind = "network" THEN [kind |-> "thrown", error |-> "network"]
    ELSE IF res.status = 403 \/ res.status = 429
    THEN [kind |-> "thrown", error |-> "GITHUB_RATE_LIMIT"]
    ELSE IF res.status # 200 THEN [kind |-> "thrown", error |-> "GitHub search failed"]
    ELSE [kind |-> "items", items |-> res.items]

getRandomRepoForLanguage(res, rnd) ==
    LET found == searchRepositories(res)
    IN  IF found.kind = "thrown" THEN found
        ELSE IF Len(found.items) = 0 THEN [kind |-> "none"]
        ELSE [kind |-> "repo", repo |-> found.items[1 + FloorTimes(rnd, Len(found.items))]]

\* fetchRepoTree: null unless the response is ok
fetchRepoTree(res) ==
    IF res.kind = "network" THEN [kind |-> "thrown", error |-> "network"]
    ELSE IF ~res.ok THEN [kind |-> "null"]
    ELSE [kind |-> "tree", files |-> res.files]

\* fetchFileContent: null unless the response is ok
fetchFileContent(path, res) ==
    IF res.kind = "network" THEN [kind |-> "thrown", error |-> "network"]
    ELSE IF ~res.ok THEN [kind |-> "null"]
    ELSE [kind |-> "file", path |-> path, content |-> res.content, language |-> res.language]

Main == <<"m", "a", "i", "n">>

\* getCommitSha: the sha of the response, the ref when there is none
getCommitSha(ref, res) ==
    IF res.kind = "network" THEN [kind |-> "thrown", error |-> "network"]
    ELSE IF ~res.ok THEN [kind |-> "sha", sha |-> ref]
    ELSE [kind |-> "sha", sha |-> Nullish(res.sha, JStr(ref)).cs]

\* puzzleCache is a Map: its keys in insertion order, and the puzzle under each key
CacheKeys(cache) == [i \in 1 .. Len(cache) |-> cache[i].puzzleId]

CacheHas(cache, puzzleId) == \E i \in 1 .. Len(cache) : cache[i].puzzleId = puzzleId

\* Map.set: a present key keeps its place and takes the new value
MapSet(cache, puzzle) ==
    IF CacheHas(cache, puzzle.puzzleId)
    THEN [i \in 1 .. Len(cache) |->
            IF cache[i].puzzleId = puzzle.puzzleId THEN puzzle ELSE cache[i]]
    ELSE Append(cache, puzzle)

\* a cache insertion that never evicts
setCachedPuzzleNoEvict(cache, puzzle) == MapSet(cache, puzzle)

\* if (size >= PUZZLE_CACHE_MAX) delete the first key, unless it is the empty
\* string; then set
setCachedPuzzle(cache, puzzle) ==
    IF Len(cache) >= PUZZLE_CACHE_MAX /\ Head(cache).puzzleId # <<>>
    THEN MapSet(Tail(cache), puzzle)
    ELSE MapSet(cache, puzzle)

\* getCachedPuzzle: the puzzle under the id, or null
getCachedPuzzle(cache, puzzleId) ==
    IF CacheHas(cache, puzzleId)
    THEN (CHOOSE p \in SeqRange(cache) : p.puzzleId = puzzleId)
    ELSE Null

\* the puzzle built from one round's repository, file, commit and parsed model answer
AssemblePuzzle(owner, name, ref, fileInfo, sha, parsed, lineCount, targetLanguage) ==
    LET span == AssembleSpan(parsed, lineCount)
    IN  [puzzleId |-> PuzzleId(owner, name, fileInfo.path, sha),
         repo |-> [owner |-> owner, name |-> name, defaultBranch |-> ref],
         file |-> fileInfo,
         commit |-> [sha |-> sha, branch |-> ref],
         question |-> ToStringJS(parsed.question),
         answerKey |-> [startLine |-> span.startLine, endLine |-> span.endLine,
                        insufficientContextAllowed |-> parsed.insufficientContextAllowed,
                        answer |-> IF parsed.answer.t = "str" THEN parsed.answer
                                   ELSE Undefined],
         explanation |-> ToStringJS(Nullish(parsed.explanation, JStr(<<>>))),
         gradingRubric |->
             IF parsed.answer.t = "str"
             THEN JStr(<<"Correct answer: ">> \o parsed.answer.cs
                       \o <<". Grade by exact match or rubric in explanation.">>)
             ELSE ToStringJS(Nullish(parsed.gradingRubric, JStr(<<>>))),
         category |-> getCategoryForLanguage(targetLanguage),
         language |-> targetLanguage]

\* treeForLang.length > 0 ? treeForLang : tree
CandidateFiles(files, targetLanguage) ==
    Local([treeForLang \in
              {SelectSeq(files, LAMBDA f : isPathForLanguage(f.path, targetLanguage))} |->
        IF Len(treeForLang) > 0 THEN treeForLang ELSE files])

\* one round of the loop: the puzzle, the error thrown, or "continue"
GenerateAttempt(up, targetLanguage) ==
    Local([found \in {getRandomRepoForLanguage(up.search, up.rndItem)} |->
    IF found.kind = "thrown"
    THEN (IF found.error = "GITHUB_RATE_LIMIT" THEN found ELSE [kind |-> "continue"])
    ELSE IF found.kind = "none" THEN [kind |-> "continue"]
    ELSE
    Local([ref \in {IF found.repo.default_branch = <<>> THEN Main
                    ELSE found.repo.default_branch} |->
    Local([tree \in {fetchRepoTree(up.tree)} |->
    IF tree.kind = "thrown" THEN tree
    ELSE IF tree.kind = "null" THEN [kind |-> "continue"]
    ELSE IF Len(tree.files) = 0 THEN [kind |-> "continue"]
    ELSE
    Local([files \in {CandidateFiles(tree.files, targetLanguage)} |->
    Local([fileInfo \in
              {fetchFileContent(files[1 + FloorTimes(up.rndFile, Len(files))].path, up.file)} |->
    IF fileInfo.kind = "thrown" THEN fileInfo
    ELSE IF fileInfo.kind = "null" THEN [kind |-> "continue"]
    ELSE IF fileInfo.content.length < MinContentLength THEN [kind |-> "continue"]
    ELSE IF fileInfo.content.lines < MIN_LINES THEN [kind |-> "continue"]
    ELSE
    Local([commit \in {getCommitSha(ref, up.commit)} |->
    IF commit.kind = "thrown" THEN commit
    ELSE IF up.llm.kind = "thrown" THEN [kind |-> "continue"]
    ELSE
    Local([obj \in {extractJsonObject(Trim(up.llm.content))} |->
    Local([parsed \in {IF obj.t = "obj" THEN objToLLMPuzzleRaw(obj) ELSE Null} |->
    IF parsed = Null THEN [kind |-> "continue"]
    ELSE [kind |-> "puzzle",
          puzzle |-> AssemblePuzzle(found.repo.owner, found.repo.name, ref, fileInfo,
                                    commit.sha, parsed, Whole(fileInfo.content.lines),
                                    targetLanguage)]])])])])])])])])

RECURSIVE GenerateFrom(_, _, _)
GenerateFrom(script, attempt, targetLanguage) ==
    IF attempt >= maxAttempts THEN [kind |-> "null"]
    ELSE Local([round \in {GenerateAttempt(script[attempt + 1], targetLanguage)} |->
              IF round.kind = "continue" THEN GenerateFrom(script, attempt + 1, targetLanguage)
             ELSE round])

\* options?.language ?? languages[Math.floor(rng() * languages.length)]
TargetLanguage(optLanguage, rnd) ==
    IF optLanguage # "" THEN optLanguage
    ELSE getAllLanguages[1 + FloorTimes(rnd, Len(getAllLanguages))]

\* generatePuzzle: what the call ends with, and the cache it leaves
generatePuzzle(cache, optLanguage, rndLang, script) ==
    Local([done \in {GenerateFrom(script, 0, TargetLanguage(optLanguage, rndLang))} |->
        [result |-> done,
         cache |-> IF done.kind = "puzzle" THEN setCachedPuzzle(cache, done.puzzle)
                   ELSE cache]])

(***************************************************************************)
(* Generation harness: runs of generatePuzzle against one repository whose *)
(* default branch moved from commit c1 to commit c2.  File a is the same   *)
(* in both commits, file b changed.                                        *)
(***************************************************************************)
MaxGenRuns == 2

GenRepo == [owner |-> <<"o">>, name |-> <<"r">>, default_branch |-> Main]

GenTree == <<[path |-> <<"a", ".", "t", "s">>], [path |-> <<"b", ".", "T", "S">>],
             [path |-> <<"c", ".", "r", "s">>]>>

Heads == {<<"c", "1">>, <<"c", "2">>}

\* the version of the file picked with rndFile that the branch holds at a head commit
VersionAt(rndFile, head) ==
    IF rndFile = 0 THEN "v1" ELSE IF head = <<"c", "1">> THEN "v1" ELSE "v2"

FileResponse(length, lines, version) ==
    [kind |-> "http", ok |-> TRUE, language |-> "TypeScript",
     content |-> [length |-> length, lines |-> lines, version |-> version]]

CommitResponses(head) ==
    {[kind |-> "http", ok |-> TRUE, sha |-> JStr(head)],
     [kind |-> "http", ok |-> TRUE, sha |-> Undefined],
     [kind |-> "http", ok |-> FALSE, sha |-> Undefined], [kind |-> "network"]}

GoodAnswer ==
    <<"S", "u", "r", "e", ":", " ", "{", "\"", "q", "u", "e", "s", "t", "i", "o", "n",
      "\"", ":", "\"", "Q", "\"", ",", "\"", "s", "t", "a", "r", "t", "L", "i", "n", "e",
      "\"", ":", "3", ",", "\"", "e", "n", "d", "L", "i", "n", "e", "\"", ":", "2", ",",
      "\"", "a", "n", "s", "w", "e", "r", "\"", ":", "\"", "A", "\"", "}">>

RejectedAnswer ==
    <<"{", "\"", "q", "u", "e", "s", "t", "i", "o", "n", "\"", ":", "\"", "Q", "\"", ",",
      "\"", "s", "t", "a", "r", "t", "L", "i", "n", "e", "\"", ":", "0", ",", "\"", "e",
      "n", "d", "L", "i", "n", "e", "\"", ":", "2", "}">>

UpstreamOf(search, tree, rndFile, file, commit, llm) ==
    [search |-> search, rndItem |-> Fraction(0), tree |-> tree, rndFile |-> Fraction(rndFile),
     file |-> file, commit |-> commit, llm |-> llm]

SearchOk == [kind |-> "http", status |-> 200, items |-> <<GenRepo>>]
TreeOk == [kind |-> "http", ok |-> TRUE, files |-> GenTree]
LlmOk == [kind |-> "completion", content |-> GoodAnswer]

\* rounds that reach assembly
GoodRounds ==
    {UpstreamOf(SearchOk, TreeOk, rndFile, FileResponse(400, 40, VersionAt(rndFile, head)),
                commit, LlmOk) :
        rndFile \in {0, 2}, head \in Heads, commit \in UNION {CommitResponses(h) : h \in Heads}}

GoodRound == UpstreamOf(SearchOk, TreeOk, 0, FileResponse(400, 40, "v1"),
                        [kind |-> "http", ok |-> TRUE, sha |-> JStr(<<"c", "1">>)], LlmOk)

\* rounds that stop before assembly
BadRounds ==
    {[GoodRound EXCEPT !.search = s] :
        s \in {[kind |-> "http", status |-> 403, items |-> <<>>],
               [kind |-> "http", status |-> 500, items |-> <<>>],
               [kind |-> "http", status |-> 200, items |-> <<>>],
               [kind |-> "network"]}}
    \cup {[GoodRound EXCEPT !.tree = t] :
        t \in {[kind |-> "http", ok |-> FALSE, files |-> <<>>],
               [kind |-> "http", ok |-> TRUE, files |-> <<>>],
               [kind |-> "network"]}}
    \cup {[GoodRound EXCEPT !.file = f] :
        f \in {[kind |-> "http", ok |-> FALSE], [kind |-> "network"],
               FileResponse(MinContentLength - 1, MIN_LINES, "v1"),
               FileResponse(400, MIN_LINES - 1, "v1")}}
    \cup {[GoodRound EXCEPT !.llm = l] :
        l \in {[kind |-> "thrown"], [kind |-> "completion", content |-> RejectedAnswer]}}

\* a run's rounds: the same good round every time, the same bad round every time, or
\* bad rounds followed by the good round
GenScripts ==
    {[i \in 1 .. maxAttempts |-> good] : good \in GoodRounds}
    \cup {[i \in 1 .. maxAttempts |-> bad] : bad \in BadRounds}
    \cup {[i \in 1 .. maxAttempts |-> IF i <= k THEN bad ELSE GoodRound] :
            k \in {1, maxAttempts - 1}, bad \in BadRounds}

GenIdle == gen = [runs |-> <<>>] /\ puzzleCache = <<>>

\* one call of generatePuzzle
Generate ==
    /\ Len(gen.runs) < MaxGenRuns
    /\ \E script \in GenScripts, optLanguage \in {"", "JavaScript"} :
          \E done \in {generatePuzzle(puzzleCache, optLanguage, Fraction(0), script)} :
              /\ gen' = [gen EXCEPT !.runs = Append(@, done.result)]
              /\ puzzleCache' = done.cache
    /\ UNCHANGED <<asm, px, store, dbLog, grading, web>>

\* runs of generatePuzzle whose rounds all reach commit resolution, against each
\* answer of the commit request
MaxCommitRuns == 3

ResolveCommit ==
    /\ Len(gen.runs) < MaxCommitRuns
    /\ \E commit \in UNION {CommitResponses(h) : h \in Heads} :
          \E done \in {generatePuzzle(puzzleCache, "", Fraction(0),
                                      [i \in 1 .. maxAttempts |->
                                          [GoodRound EXCEPT !.commit = commit]])} :
              /\ gen' = [gen EXCEPT !.runs =
                            Append(@, [commit |-> commit,
                                       resolved |-> getCommitSha(Main, commit),
                                       kind |-> done.result.kind])]
              /\ puzzleCache' = done.cache
    /\ UNCHANGED <<asm, px, store, dbLog, grading, web>>

(***************************************************************************)
(* generatePuzzle with its generator: every draw of the selection path is  *)
(* taken from rng, and what the code-hosting service and the model answer  *)
(* depends on what was selected.  world names one such upstream.           *)
(***************************************************************************)
MaxSeedRuns == 2

Seeds == {<<>>, <<"a">>, <<"b", ":", "1">>, <<"b", ":", "2">>}
Entropies == {1, 2}
Worlds == {1, 2, 3, 4, 5}

RepoA == [owner |-> <<"o">>, name |-> <<"r">>, default_branch |-> Main]
RepoB == [owner |-> <<"o">>, name |-> <<"s">>, default_branch |-> <<>>]

TreeB == <<[path |-> <<"x", ".", "j", "s">>], [path |-> <<"a", ".", "t", "s">>]>>

\* the search answer: world 2 has repositories on the later pages only, world 3
\* fails the searches by update time, world 5 limits the rate of the searches by stars
WorldSearch(world, language, page, sort) ==
    IF world = 2 /\ page <= 5 THEN [kind |-> "http", status |-> 200, items |-> <<>>]
    ELSE IF world = 3 /\ sort = "updated" THEN [kind |-> "http", status |-> 500, items |-> <<>>]
    ELSE IF world = 5 /\ sort = "stars" THEN [kind |-> "http", status |-> 429, items |-> <<>>]
    ELSE IF language = "Shell" THEN [kind |-> "http", status |-> 200, items |-> <<RepoB>>]
    ELSE [kind |-> "http", status |-> 200,
          items |-> IF sort = "updated" THEN <<RepoA, RepoB>> ELSE <<RepoB, RepoA, RepoA>>]

\* in world 4 the tree request of repository o/s fails before any response
WorldTree(world, repo) ==
    IF world = 4 /\ repo = RepoB THEN [kind |-> "network"]
    ELSE [kind |-> "http", ok |-> TRUE, files |-> IF repo = RepoA THEN GenTree ELSE TreeB]

\* file a.ts is long enough and the model makes a puzzle of it in repository o/r only
WorldFile(world, repo, path) ==
    IF path = <<"c", ".", "r", "s">> THEN FileResponse(MinContentLength - 1, MIN_LINES, "v1")
    ELSE FileResponse(400, 40, "v1")

WorldLlm(world, repo, path) ==
    IF repo = RepoA /\ path = <<"a", ".", "t", "s">> THEN LlmOk
    ELSE [kind |-> "completion", content |-> RejectedAnswer]

NoDraw(rng) == [value |-> U32(0, 0), rng |-> rng]

\* the file of a round is put to the model: it was fetched and is long enough
ReachesModel(res) ==
    /\ res.kind = "http" /\ res.ok
    /\ res.content.length >= MinContentLength
    /\ res.content.lines >= MIN_LINES

\* one round of the loop with the draws it takes from rng: page, sort and, when the
\* search has items, the item, and, when the tree has files, the file
SeededAttempt(world, rng, targetLanguage) ==
    Local([p \in {Draw(rng)} |->
    Local([s \in {Draw(p.rng)} |->
    Local([page \in {Min({10, Max({1, FloorTimes(p.value, 10) + 1})})} |->
    Local([sort \in {IF s.value.hi < TwoTo16 \div 2 THEN "updated" ELSE "stars"} |->
    Local([search \in {WorldSearch(world, targetLanguage, page, sort)} |->
    Local([found \in {searchRepositories(search)} |->
    Local([hasItems \in {found.kind = "items" /\ Len(found.items) > 0} |->
    Local([i \in {IF hasItems THEN Draw(s.rng) ELSE NoDraw(s.rng)} |->
    Local([repo \in {IF hasItems THEN found.items[1 + FloorTimes(i.value, Len(found.items))]
                     ELSE RepoA} |->
    Local([tree \in {fetchRepoTree(WorldTree(world, repo))} |->
    Local([files \in {IF hasItems /\ tree.kind = "tree"
                      THEN CandidateFiles(tree.files, targetLanguage) ELSE <<>>} |->
    Local([f \in {IF Len(files) > 0 THEN Draw(i.rng) ELSE NoDraw(i.rng)} |->
    Local([path \in {IF Len(files) > 0 THEN files[1 + FloorTimes(f.value, Len(files))].path
                     ELSE <<>>} |->
        [round |-> GenerateAttempt(
                      [search |-> search, rndItem |-> i.value, tree |-> WorldTree(world, repo),
                       rndFile |-> f.value, file |-> WorldFile(world, repo, path),
                       commit |-> [kind |-> "http", ok |-> TRUE, sha |-> JStr(<<"c", "1">>)],
                       llm |-> WorldLlm(world, repo, path)],
                      targetLanguage),
         rng |-> f.rng,
         choice |-> [page |-> page, sort |-> sort,
                     repo |-> IF hasItems THEN repo.name ELSE <<>>,
                     path |-> path,
                     sent |-> Len(files) > 0 /\ ReachesModel(WorldFile(world, repo, path))]]])])])])])])])])])])])])])

RECURSIVE SeededFrom(_, _, _, _, _)
SeededFrom(world, rng, attempt, targetLanguage, choices) ==
    IF attempt >= maxAttempts THEN [result |-> [kind |-> "null"], choices |-> choices]
    ELSE Local([a \in {SeededAttempt(world, rng, targetLanguage)} |->
              IF a.round.kind = "continue"
              THEN SeededFrom(world, a.rng, attempt + 1, targetLanguage,
                              Append(choices, a.choice))
              ELSE [result |-> a.round, choices |-> Append(choices, a.choice)]])

\* generatePuzzle(seed, options) against an upstream: what the call ends with, the
\* language and the choices of its rounds, and the cache it leaves
generatePuzzleSeeded(cache, seed, optLanguage, entropy, world) ==
    Local([rng \in {seedRandom(seed, entropy)} |->
    Local([l \in {IF optLanguage # "" THEN NoDraw(rng) ELSE Draw(rng)} |->
    Local([targetLanguage \in {TargetLanguage(optLanguage, l.value)} |->
    Local([done \in {SeededFrom(world, l.rng, 0, targetLanguage, <<>>)} |->
        [result |-> done.result, language |-> targetLanguage, choices |-> done.choices,
         cache |-> IF done.result.kind = "puzzle"
                   THEN setCachedPuzzle(cache, done.result.puzzle) ELSE cache]])])])])

\* one call of generatePuzzle with a seed, or with none
GenerateSeeded ==
    /\ Len(gen.runs) < MaxSeedRuns
    /\ \E seed \in Seeds, entropy \in Entropies, world \in Worlds,
          optLanguage \in {"", "TypeScript"} :
          \E done \in {generatePuzzleSeeded(puzzleCache, seed, optLanguage, entropy, world)} :
              /\ gen' = [gen EXCEPT !.runs =
                            Append(@, [seed |-> seed, world |-> world,
                                       optLanguage |-> optLanguage, kind |-> done.result.kind,
                                       error |-> IF done.result.kind = "thrown"
                                                 THEN done.result.error ELSE "",
                                       language |-> done.language, choices |-> done.choices])]
              /\ puzzleCache' = done.cache
    /\ UNCHANGED <<asm, px, store, dbLog, grading, web>>

(***************************************************************************)
(* Code-hosting harness: each query of the selector against a response of  *)
(* a given status.                                                         *)
(***************************************************************************)
MaxHostingQueries == 2

HostingQueries == {"search", "tree", "file"}
RateLimitStatuses == {403, 429}
OtherErrorStatuses == {404, 500}

\* the response with a status; res.ok is true for the statuses 200 to 299
HostingResponse(status) ==
    [kind |-> "http", status |-> status, ok |-> status \in 200 .. 299,
     items |-> <<GenRepo>>, files |-> GenTree, language |-> "TypeScript",
     content |-> [length |-> 400, lines |-> 40, version |-> "v1"]]

HostingOutcome(query, status) ==
    CASE query = "search" -> searchRepositories(HostingResponse(status))
      [] query = "tree" -> fetchRepoTree(HostingResponse(status))
      [] query = "file" -> fetchFileContent(GenTree[1].path, HostingResponse(status))

\* one query of the code-hosting service
QueryHosting ==
    /\ Len(gen.runs) < MaxHostingQueries
    /\ \E query \in HostingQueries,
          status \in {200} \cup RateLimitStatuses \cup OtherErrorStatuses :
          gen' = [gen EXCEPT !.runs = Append(@, [query |-> query, status |-> status,
                                                 outcome |-> HostingOutcome(query, status)])]
    /\ UNCHANGED <<asm, px, store, dbLog, puzzleCache, grading, web>>

(***************************************************************************)
(* Store harness: the web server and the seed script insert puzzles.       *)
(***************************************************************************)
MaxStorePuzzles == 3

\* the puzzle assembled from file n of one repository at commit sha
PuzzleOf(n, sha, question) ==
    AssemblePuzzle(<<"o">>, <<"r">>, Main,
        [kind |-> "file", path |-> <<"f">> \o DecimalChars(n) \o <<".", "t", "s">>,
         content |-> [length |-> 400, lines |-> 40, version |-> "v1"],
         language |-> "TypeScript"],
        sha,
        [t |-> "raw", question |-> JStr(question), startLine |-> Whole(1 + (n % 3)),
         endLine |-> Whole(2 + (n % 3)), answer |-> Undefined, explanation |-> Undefined,
         gradingRubric |-> Undefined, insufficientContextAllowed |-> n % 2 = 0],
        Whole(40), IF n % 2 = 0 THEN "TypeScript" ELSE "JavaScript")

StorePuzzles ==
    {PuzzleOf(n, <<"c", "1">>, q) : n \in 1 .. MaxStorePuzzles, q \in {<<"Q">>, <<"R">>}}

NoFirst == [id \in {} |-> Null]

StoreIdle == store = <<>> /\ dbLog = [first |-> NoFirst, last |-> [op |-> "none"]]

\* one call of insertPuzzle; the database is reachable or the call throws
InsertInto(puzzle, dbUp, by) ==
    LET done == IF dbUp THEN insertPuzzle(store, puzzle)
                ELSE [rows |-> store, error |-> "unreachable"]
    IN  /\ store' = done.rows
        /\ dbLog' =
              [first |-> IF done.error = "none" /\ puzzle.puzzleId \notin DOMAIN dbLog.first
                         THEN (puzzle.puzzleId :> puzzle) @@ dbLog.first
                         ELSE dbLog.first,
               last |-> [op |-> "insert", by |-> by, puzzle |-> puzzle, dbUp |-> dbUp,
                         duplicate |-> RowWith(store, puzzle.puzzleId) # {},
                         outcome |-> IF done.error = "none" THEN "ok" ELSE "thrown"]]

\* lib/db/puzzles.ts, called by the puzzle route
InsertPuzzleServer ==
    /\ \E puzzle \in StorePuzzles, dbUp \in BOOLEAN : InsertInto(puzzle, dbUp, "server")
    /\ UNCHANGED <<asm, px, puzzleCache, gen, grading, web>>

\* scripts/db-client.ts, called by the seed script
InsertPuzzleScript ==
    /\ \E puzzle \in StorePuzzles, dbUp \in BOOLEAN : InsertInto(puzzle, dbUp, "script")
    /\ UNCHANGED <<asm, px, puzzleCache, gen, grading, web>>

StoreNext == InsertPuzzleServer \/ InsertPuzzleScript

(***************************************************************************)
(* Grading (lib/grading, lib/groq): the grading completion with its key    *)
(* and model rotation, the parse of the reply, and the GradeResult.        *)
(***************************************************************************)
K_correct == <<"c", "o", "r", "r", "e", "c", "t">>
K_whatYouMissed == <<"w", "h", "a", "t", "Y", "o", "u", "M", "i", "s", "s", "e", "d">>

GRADING_MODELS ==
    <<"openai/gpt-oss-20b", "llama-3.3-70b-versatile", "groq/compound",
      "moonshotai/kimi-k2-instruct-0905">>

\* getApiKeys().length: how many GROQ_API_KEY variables the environment sets
ApiKeyCount == 2

\* gradingKeyIndex and gradingModelIndex are only read modulo the number of keys and
\* of models: the model keeps the two residues
GradingStart == [keyIndex |-> 0, modelIndex |-> 0]

\* a rotation over the models that stays with the credential
RotateGradingModelOnly(g) ==
    [modelIndex |-> (g.modelIndex + 1) % Len(GRADING_MODELS), keyIndex |-> g.keyIndex]

\* gradingModelIndex++; if (gradingModelIndex % GRADING_MODELS.length === 0) gradingKeyIndex++
RotateGrading(g) ==
    [modelIndex |-> (g.modelIndex + 1) % Len(GRADING_MODELS),
     keyIndex |-> IF (g.modelIndex + 1) % Len(GRADING_MODELS) = 0
                  THEN (g.keyIndex + 1) % ApiKeyCount ELSE g.keyIndex]

\* getGroqChatCompletionForGrading.  calls tells how the service answers: its first
\* calls.limited answers are 429s, the next one is calls.then.  The completion or the
\* error thrown, and the indices the call leaves.
RECURSIVE getGroqChatCompletionForGrading(_, _, _)
getGroqChatCompletionForGrading(calls, attempt, g) ==
    IF attempt >= ApiKeyCount * Len(GRADING_MODELS)
    THEN [kind |-> "thrown", error |-> "exhausted", grading |-> g]
    ELSE IF attempt < calls.limited
    THEN getGroqChatCompletionForGrading(calls, attempt + 1, RotateGrading(g))
    ELSE IF calls.then.kind = "error"
    THEN [kind |-> "thrown", error |-> "inference", grading |-> g]
    ELSE [kind |-> "completion", content |-> calls.then.content,
          model |-> GRADING_MODELS[g.modelIndex + 1], key |-> g.keyIndex, grading |-> g]

FenceJso == <<BT, BT, BT, "j", "s", "o">>
Fence == <<BT, BT, BT>>

\* .replace(/^```json?\s*|\s*```$/g, ""): the text after a leading ```jso or ```json
\* and the white space behind it, ...
AfterLeadingFence(s) ==
    IF MatchAt(s, 1, FenceJso)
    THEN SubSeq(s, AfterWs(s, IF MatchAt(s, 7, <<"n">>) THEN 8 ELSE 7), Len(s))
    ELSE s

\* ... and before a closing ``` that ends the text, with the white space before it
BeforeTrailingFence(s) ==
    IF EndsWith(s, Fence)
    THEN SubSeq(s, 1, Max({k \in 0 .. Len(s) - 3 : k = 0 \/ ~IsWs(s[k])}))
    ELSE s

\* parseGradeJson: the parsed reply, null when JSON.parse throws
parseGradeJson(text) ==
    Local([parsed \in {JsonParse(BeforeTrailingFence(AfterLeadingFence(Trim(text))))} |->
              IF parsed = Thrown THEN Null ELSE parsed])

\* an expected range that is reported whatever the verdict
ExpectedRangeAlways(parsed, expectedRange) == expectedRange

\* expectedRange: parsed.correct ? null : expectedRange
ExpectedRangeOf(parsed, expectedRange) ==
    IF Truthy(Prop(parsed, K_correct)) THEN Null ELSE expectedRange

\* the GradeResult built from a parsed reply, in either mode
GradeResultOf(parsed, puzzle, insufficientContext) ==
    [correct |-> Truthy(Prop(parsed, K_correct)),
     insufficientContextAllowed |->
         IF insufficientContext THEN Truthy(Prop(parsed, K_insufficientContextAllowed))
         ELSE puzzle.answerKey.insufficientContextAllowed,
     explanation |-> ToStringJS(Nullish(Prop(parsed, K_explanation), JStr(<<>>))),
     whatYouMissed |-> IF insufficientContext THEN Null
                       ELSE Nullish(Prop(parsed, K_whatYouMissed), Null),
     expectedRange |->
         ExpectedRangeOf(parsed, [startLine |-> puzzle.answerKey.startLine,
                                  endLine |-> puzzle.answerKey.endLine])]

\* completion.choices[0]?.message?.content?.trim() ?? ""
RawContent(content) == IF content.t = "str" THEN Trim(content.cs) ELSE <<>>

\* gradeSubmission: the GradeResult or null, and the rotation indices it leaves
gradeSubmission(cache, submission, calls, g) ==
    IF getCachedPuzzle(cache, submission.puzzleId) = Null
    THEN [result |-> Null, grading |-> g]
    ELSE
    Local([completion \in {getGroqChatCompletionForGrading(calls, 0, g)} |->
    IF completion.kind = "thrown" THEN [result |-> Null, grading |-> completion.grading]
    ELSE
    Local([parsed \in {parseGradeJson(RawContent(completion.content))} |->
    IF ~Truthy(parsed) THEN [result |-> Null, grading |-> completion.grading]
    ELSE [result |-> GradeResultOf(parsed, getCachedPuzzle(cache, submission.puzzleId),
                                   submission.insufficientContext),
          grading |-> completion.grading]])])

(***************************************************************************)
(* POST /api/grade (app/api/grade/route.ts)                                *)
(***************************************************************************)
K_puzzleId == <<"p", "u", "z", "z", "l", "e", "I", "d">>
K_insufficientContext == <<"i", "n", "s", "u", "f", "f", "i", "c", "i", "e", "n", "t", "C",
          "o", "n", "t", "e", "x", "t">>
K_selectedRanges == <<"s", "e", "l", "e", "c", "t", "e", "d", "R", "a", "n", "g", "e", "s">>
K_selectedRange == <<"s", "e", "l", "e", "c", "t", "e", "d", "R", "a", "n", "g", "e">>
K_optionalExplanation == <<"o", "p", "t", "i", "o", "n", "a", "l", "E", "x", "p", "l", "a",
          "n", "a", "t", "i", "o", "n">>

MAX_EXPLANATION_LENGTH == 2000
MaxPuzzleIdLength == 500
MaxLineNumber == 100000

Invalid(error) == [ok |-> FALSE, status |-> 400, error |-> error]

\* typeof v === "object" (v is not null)
TypeofObject(v) == v.t \in {"obj", "arr"}

\* line numbers checked against the lower limit only
LineNumbersOkNoUpper(startLine, endLine) ==
    /\ TypeofNumber(startLine) /\ TypeofNumber(endLine)
    /\ ~NumLess(startLine, Whole(1)) /\ ~NumLess(endLine, Whole(1))

\* typeof startLine === "number" && typeof endLine === "number" && neither is < 1
\* or > 100_000
LineNumbersOk(startLine, endLine) ==
    /\ TypeofNumber(startLine) /\ TypeofNumber(endLine)
    /\ ~NumLess(startLine, Whole(1)) /\ ~NumLess(endLine, Whole(1))
    /\ ~NumLess(Whole(MaxLineNumber), startLine) /\ ~NumLess(Whole(MaxLineNumber), endLine)

\* the error of one item of selectedRanges, "" when it has none
RangesItemError(r) ==
    IF ~TypeofObject(r) THEN "Invalid selectedRanges item"
    ELSE IF ~LineNumbersOk(Prop(r, K_startLine), Prop(r, K_endLine))
    THEN "Invalid selectedRanges line numbers"
    ELSE ""

RangeOf(r) == [startLine |-> Prop(r, K_startLine), endLine |-> Prop(r, K_endLine)]

\* the loop over b.selectedRanges: the ranges pushed, or the error of the first bad item
CollectRanges(b) ==
    IF Prop(b, K_selectedRanges).t # "arr" THEN [error |-> "", ranges |-> <<>>]
    ELSE Local([items \in {Prop(b, K_selectedRanges).a} |->
        Local([bad \in {{i \in 1 .. Len(items) : RangesItemError(items[i]) # ""}} |->
            IF bad # {} THEN [error |-> RangesItemError(items[Min(bad)]), ranges |-> <<>>]
            ELSE [error |-> "", ranges |-> [i \in 1 .. Len(items) |-> RangeOf(items[i])]]])])

\* the legacy selectedRange, read when selectedRanges gave no range
CollectLegacy(b, ranges) ==
    IF Len(ranges) # 0 \/ Prop(b, K_selectedRange).t \in {"undefined", "null"}
    THEN [error |-> "", ranges |-> ranges]
    ELSE IF ~TypeofObject(Prop(b, K_selectedRange))
    THEN [error |-> "Invalid selectedRange", ranges |-> ranges]
    ELSE IF ~LineNumbersOk(Prop(Prop(b, K_selectedRange), K_startLine),
                           Prop(Prop(b, K_selectedRange), K_endLine))
    THEN [error |-> "Invalid selectedRange line numbers", ranges |-> ranges]
    ELSE [error |-> "", ranges |-> <<RangeOf(Prop(b, K_selectedRange))>>]

ExplanationError(e) ==
    IF e.t \in {"undefined", "null"} THEN ""
    ELSE IF e.t # "str" THEN "Invalid optionalExplanation"
    ELSE IF Len(e.cs) > MAX_EXPLANATION_LENGTH THEN "optionalExplanation too long"
    ELSE ""

validateSubmission(body) ==
    IF ~TypeofObject(body) THEN Invalid("Invalid body")
    ELSE IF \/ Prop(body, K_puzzleId).t # "str"
            \/ Len(Prop(body, K_puzzleId).cs) = 0
            \/ Len(Prop(body, K_puzzleId).cs) > MaxPuzzleIdLength
    THEN Invalid("Invalid puzzleId")
    ELSE IF Prop(body, K_insufficientContext).t # "bool"
    THEN Invalid("Invalid insufficientContext")
    ELSE
    Local([listed \in {CollectRanges(body)} |->
    IF listed.error # "" THEN Invalid(listed.error)
    ELSE
    Local([selected \in {CollectLegacy(body, listed.ranges)} |->
    IF selected.error # "" THEN Invalid(selected.error)
    ELSE IF ExplanationError(Prop(body, K_optionalExplanation)) # ""
    THEN Invalid(ExplanationError(Prop(body, K_optionalExplanation)))
    ELSE IF ~Prop(body, K_insufficientContext).b /\ Len(selected.ranges) = 0
    THEN Invalid("Select at least one line range or choose Insufficient context")
    ELSE [ok |-> TRUE,
          data |-> [puzzleId |-> Prop(body, K_puzzleId).cs,
                    selectedRange |-> IF Len(selected.ranges) = 0 THEN Null
                                      ELSE selected.ranges[1],
                    selectedRanges |-> selected.ranges,
                    optionalExplanation |-> Nullish(Prop(body, K_optionalExplanation), Null),
                    insufficientContext |-> Prop(body, K_insufficientContext).b]]])])

\* POST: what the handler answers to a body and the grading service's answers.  A
\* body of Thrown is a request whose request.json() throws.
GradeResponse(cache, body, calls, g) ==
    IF body = Thrown
    THEN [status |-> 500, error |-> "Something went wrong.", result |-> Null,
          invoked |-> FALSE, grading |-> g]
    ELSE
    Local([validated \in {validateSubmission(body)} |->
    IF ~validated.ok
    THEN [status |-> validated.status, error |-> validated.error, result |-> Null,
          invoked |-> FALSE, grading |-> g]
    ELSE
    Local([graded \in {gradeSubmission(cache, validated.data, calls, g)} |->
    IF graded.result = Null
    THEN [status |-> 404, error |-> "Puzzle not found or grading failed.",
          result |-> Null, invoked |-> TRUE, data |-> validated.data,
          grading |-> graded.grading]
    ELSE [status |-> 200, error |-> "", result |-> graded.result, invoked |-> TRUE,
          data |-> validated.data, grading |-> graded.grading]])])

(***************************************************************************)
(* GET /api/puzzle (app/api/puzzle/route.ts)                               *)
(***************************************************************************)
\* one cache insertion: the keys before it, the key set, the keys after it
Insertion(before, puzzle, after) ==
    [before |-> CacheKeys(before), id |-> puzzle.puzzleId, after |-> CacheKeys(after)]

\* the part of GET after the database branch: generatePuzzle, insertPuzzle, the answer
GenerateAndStore(cache, rows, db, script, insertions) ==
    Local([done \in {generatePuzzle(cache, "", Fraction(0), script)} |->
        IF done.result.kind = "thrown"
        THEN [status |-> 500, error |-> "Something went wrong.", puzzle |-> Null,
              cache |-> done.cache, rows |-> rows, insertions |-> insertions]
        ELSE IF done.result.kind = "null"
        THEN [status |-> 503, error |-> "Could not generate a puzzle. Try again.",
              puzzle |-> Null, cache |-> done.cache, rows |-> rows,
              insertions |-> insertions]
        ELSE [status |-> 200, error |-> "", puzzle |-> done.result.puzzle,
              cache |-> done.cache,
              rows |-> IF db = "down" THEN rows
                       ELSE insertPuzzle(rows, done.result.puzzle).rows,
              insertions |->
                  Append(insertions, Insertion(cache, done.result.puzzle, done.cache))]])

\* getRandomPuzzle(_filter): the row that ORDER BY random() puts first, of all the
\* rows; the filter is not part of the query
getRandomPuzzle(rows, filter, pick) ==
    IF Len(rows) = 0 THEN Null ELSE rowToPuzzle(rows[pick])

\* GET.  query holds the language and category parameters of the request, each <<>>
\* when absent; db tells how the database answers this request: "up", "down" (every
\* query throws) or "reports" (the query of getReportCount throws); pick is the row
\* that ORDER BY random() puts first; script is what the upstream services answer.
PuzzleResponse(cache, rows, db, pick, script, query) ==
    IF db = "down" \/ Len(rows) = 0
    THEN GenerateAndStore(cache, rows, db, script, <<>>)
    ELSE
    Local([fromDb \in {getRandomPuzzle(rows, [language |-> query.language,
                                               category |-> query.category], pick)} |->
    Local([served \in {setCachedPuzzle(cache, fromDb)} |->
        IF db = "reports"
        THEN GenerateAndStore(served, rows, db, script, <<Insertion(cache, fromDb, served)>>)
        ELSE [status |-> 200, error |-> "", puzzle |-> fromDb,
              cache |-> served, rows |-> rows,
              insertions |-> <<Insertion(cache, fromDb, served)>>]])])

(***************************************************************************)
(* The server: puzzle requests and grade requests against one process with *)
(* its puzzle cache, its rotation indices, and the puzzles table.          *)
(***************************************************************************)
MaxEvictions == 2
MaxGradePuzzles == 1

WebIdle ==
    /\ web = [handed |-> {}, evictions |-> 0, last |-> [op |-> "none"]]
    /\ grading = GradingStart

FilePath(n) == <<"f">> \o DecimalChars(n) \o <<".", "t", "s">>

IdOfFile(n) == PuzzleId(GenRepo.owner, GenRepo.name, FilePath(n), <<"c", "1">>)

\* every round finds file n of the repository and a model answer that assembles
ServeFile(n) ==
    [i \in 1 .. maxAttempts |->
        UpstreamOf(SearchOk, [kind |-> "http", ok |-> TRUE, files |-> <<[path |-> FilePath(n)]>>],
                   0, FileResponse(400, 40, "v1"),
                   [kind |-> "http", ok |-> TRUE, sha |-> JStr(<<"c", "1">>)], LlmOk)]

SearchFails ==
    [i \in 1 .. maxAttempts |->
        [GoodRound EXCEPT !.search = [kind |-> "http", status |-> 500, items |-> <<>>]]]

SearchRateLimited ==
    [i \in 1 .. maxAttempts |->
        [GoodRound EXCEPT !.search = [kind |-> "http", status |-> 403, items |-> <<>>]]]

\* the upstream offers the first file again, or a file no puzzle was made of yet
PuzzleScripts ==
    {ServeFile(1), ServeFile(Cardinality(web.handed) + 1), SearchFails, SearchRateLimited}

AtCapacity(insertions) ==
    Cardinality({i \in 1 .. Len(insertions) : Len(insertions[i].before) >= PUZZLE_CACHE_MAX})

\* one GET /api/puzzle; random() picks the oldest row or the newest
GetPuzzle(limit, dbs, queries) ==
    /\ web.evictions < MaxEvictions
    /\ Len(puzzleCache) < limit
    /\ \E db \in dbs, pick \in {1, Max({1, Len(store)})}, script \in PuzzleScripts,
          query \in queries :
          \E res \in {PuzzleResponse(puzzleCache, store, db, pick, script, query)} :
              /\ puzzleCache' = res.cache
              /\ store' = res.rows
              /\ web' = [handed |-> IF res.status = 200
                                    THEN web.handed \cup {res.puzzle.puzzleId}
                                    ELSE web.handed,
                         evictions |-> web.evictions + AtCapacity(res.insertions),
                         last |-> [op |-> "puzzle", db |-> db, status |-> res.status,
                                   error |-> res.error, insertions |-> res.insertions,
                                   query |-> query,
                                   language |-> IF res.status = 200
                                                THEN res.puzzle.language ELSE "",
                                   category |-> IF res.status = 200
                                                THEN res.puzzle.category ELSE ""]]
    /\ UNCHANGED <<asm, px, dbLog, gen, grading>>

\* one POST /api/grade, with a body and grading-service answers from requests
PostGrade(requests) ==
    /\ \E request \in requests :
          \E res \in {GradeResponse(puzzleCache, request[1], request[2], grading)} :
          \E cached \in {res.invoked /\ CacheHas(puzzleCache, res.data.puzzleId)} :
              /\ grading' = res.grading
              /\ web' = [web EXCEPT
                    !.last = [op |-> "grade", body |-> request[1], calls |-> request[2],
                              status |-> res.status, error |-> res.error,
                              result |-> res.result, invoked |-> res.invoked,
                              cached |-> cached]]
    /\ UNCHANGED <<asm, px, store, dbLog, puzzleCache, gen>>

\* request bodies
Range(s, e) == ObjectOf((K_startLine :> s) @@ (K_endLine :> e))

Body(id, ic, ranges, legacy, explanation) ==
    ObjectOf((K_puzzleId :> id) @@ (K_insufficientContext :> ic)
             @@ (K_selectedRanges :> ranges) @@ (K_selectedRange :> legacy)
             @@ (K_optionalExplanation :> explanation))

Filler(n) == [i \in 1 .. n |-> "x"]

RangeLists ==
    {Absent, JArr(<<>>), JArr(<<Range(Whole(1), Whole(2))>>),
     JArr(<<Range(Whole(2), Whole(1)), Range(Whole(3), Whole(3))>>),
     JArr(<<Range(Whole(0), Whole(2))>>),
     JArr(<<Range(Whole(1), Whole(2)), Range(Whole(1), Whole(MaxLineNumber + 1))>>),
     JArr(<<Range(Whole(MaxLineNumber), Whole(MaxLineNumber))>>),
     JArr(<<Range(Num(3), Whole(2))>>),
     JArr(<<Null>>), JArr(<<Range(JStr(<<"1">>), Whole(2))>>),
     Range(Whole(0), Whole(2))}

LegacyRanges ==
    {Absent, Null, Range(Whole(1), Whole(2)), Range(Whole(0), Whole(2)),
     Range(Whole(1), Whole(MaxLineNumber + 1)), Whole(5)}

Explanations ==
    {Absent, Null, JStr(<<"e">>), JStr(Filler(MAX_EXPLANATION_LENGTH)),
     JStr(Filler(MAX_EXPLANATION_LENGTH + 1)), Whole(7)}

PuzzleIds ==
    {Absent, Whole(1), JStr(<<>>), JStr(<<"x">>), JStr(Filler(MaxPuzzleIdLength)),
     JStr(Filler(MaxPuzzleIdLength + 1)), JStr(IdOfFile(2))}

GradeBodies ==
    {Body(JStr(IdOfFile(1)), Bool(ic), rs, lg, Absent) :
        ic \in BOOLEAN, rs \in RangeLists, lg \in LegacyRanges}
    \cup {Body(JStr(IdOfFile(1)), Bool(ic), rs, Absent, ex) :
            ic \in BOOLEAN, rs \in {Absent, JArr(<<Range(Whole(1), Whole(2))>>)},
            ex \in Explanations}
    \cup {Body(id, Bool(TRUE), Absent, Absent, Absent) : id \in PuzzleIds}
    \cup {Body(JStr(IdOfFile(1)), ic, Absent, Absent, Absent) :
            ic \in {Absent, JStr(<<"t", "r", "u", "e">>)}}
    \cup {Thrown, Null, Whole(3), JStr(<<"x">>), JArr(<<>>)}

\* what the grading service answers
Calls(limited, then) == [limited |-> limited, then |-> then]
Reply(text) == [kind |-> "completion", content |-> JStr(text)]

Verdict == <<"{", DQ, "c", "o", "r", "r", "e", "c", "t", DQ, ":", "t", "r", "u", "e", "}">>

Replies ==
    {Verdict,
     <<"{", DQ, "c", "o", "r", "r", "e", "c", "t", DQ, ":", "t", "r", "u", "e", ",", DQ,
       "i", "n", "s", "u", "f", "f", "i", "c", "i", "e", "n", "t", "C", "o", "n", "t", "e",
       "x", "t", "A", "l", "l", "o", "w", "e", "d", DQ, ":", "t", "r", "u", "e", "}">>,
     <<"{", DQ, "c", "o", "r", "r", "e", "c", "t", DQ, ":", "f", "a", "l", "s", "e", ",",
       DQ, "e", "x", "p", "l", "a", "n", "a", "t", "i", "o", "n", DQ, ":", DQ, "e", DQ,
       ",", DQ, "w", "h", "a", "t", "Y", "o", "u", "M", "i", "s", "s", "e", "d", DQ, ":",
       DQ, "m", DQ, "}">>,
     <<BT, BT, BT, "j", "s", "o", "n", NL, "{", DQ, "c", "o", "r", "r", "e", "c", "t", DQ,
       ":", "t", "r", "u", "e", "}", NL, BT, BT, BT>>,
     <<" ", BT, BT, BT, "j", "s", "o", " ", "{", DQ, "c", "o", "r", "r", "e", "c", "t", DQ,
       ":", "f", "a", "l", "s", "e", "}", " ", BT, BT, BT, NL>>,
     <<BT, BT, BT, NL, "{", DQ, "c", "o", "r", "r", "e", "c", "t", DQ, ":", "t", "r", "u",
       "e", "}", NL, BT, BT, BT>>,
     <<"{", DQ, "e", "x", "p", "l", "a", "n", "a", "t", "i", "o", "n", DQ, ":", DQ, "e",
       DQ, "}">>,
     <<"{", DQ, "c", "o", "r", "r", "e", "c", "t", DQ, ":", DQ, "f", "a", "l", "s", "e",
       DQ, "}">>,
     <<"{", DQ, "c", "o", "r", "r", "e", "c", "t", DQ, ":", "0", ",", DQ, "e", "x", "p",
       "l", "a", "n", "a", "t", "i", "o", "n", DQ, ":", "7", "}">>,
     <<"{", DQ, "c", "o", "r", "r", "e", "c", "t", DQ, ":", "n", "u", "l", "l", "}">>,
     <<"{", "}">>, <<"[", "]">>, <<"4", "2">>, <<DQ, "n", "o", DQ>>, <<"t", "r", "u", "e">>,
     <<"n", "u", "l", "l">>, <<"0">>, <<"f", "a", "l", "s", "e">>, <<DQ, DQ>>,
     <<"{", DQ, "c", "o", "r", "r", "e", "c", "t", DQ, ":", "t", "r", "u", "e">>,
     <<"I", " ", "t", "h", "i", "n", "k", " ", "i", "t", " ", "i", "s", " ", "c", "o", "r",
       "r", "e", "c", "t", ".">>,
     <<>>}

GradeCalls ==
    {Calls(0, Reply(r)) : r \in Replies}
    \cup {Calls(0, [kind |-> "error"]), Calls(0, [kind |-> "completion", content |-> Null])}
    \cup {Calls(k, [kind |-> "completion", content |-> JStr(Verdict)]) :
            k \in {Len(GRADING_MODELS), ApiKeyCount * Len(GRADING_MODELS)}}
    \cup {Calls(Len(GRADING_MODELS), [kind |-> "error"])}

\* every body with a service that answers a verdict, and the two plain submissions
\* with every answer of the service
GradeRequests ==
    {<<body, Calls(0, Reply(Verdict))>> : body \in GradeBodies}
    \cup {<<Body(JStr(IdOfFile(1)), Bool(TRUE), Absent, Absent, Absent), calls>> :
            calls \in GradeCalls}
    \cup {<<Body(JStr(IdOfFile(1)), Bool(FALSE), JArr(<<Range(Whole(1), Whole(2))>>),
                 Absent, JStr(<<"e">>)), calls>> : calls \in GradeCalls}

\* a submission for the first puzzle handed out, for the last one, and for none
CacheGradeRequests ==
    {<<Body(JStr(id), Bool(TRUE), Absent, Absent, Absent), calls>> :
        id \in {IdOfFile(1), IdOfFile(Cardinality(web.handed)), <<"x">>},
        calls \in {Calls(0, Reply(Verdict)), Calls(0, [kind |-> "error"])}}

\* a request without language and category parameters
NoQuery == [language |-> <<>>, category |-> <<>>]

\* the database answers, fails every query, or fails the query of the report count
PuzzleRequestFew == GetPuzzle(MaxGradePuzzles, {"up", "down", "reports"}, {NoQuery})
GradeRequest == PostGrade(GradeRequests)
GradeNext == PuzzleRequestFew \/ GradeRequest

\* the database answers every query but, at times, that of the report count: each
\* puzzle generated is stored
PuzzleRequest == GetPuzzle(PUZZLE_CACHE_MAX + 1, {"up", "reports"}, {NoQuery})
GradeCachedRequest == PostGrade(CacheGradeRequests)
CacheNext == PuzzleRequest \/ GradeCachedRequest

\* grade requests for one cached puzzle against a grading service that limits the
\* rate of the first attempts of a call
MaxLimited == 9

\* {"correct":true,"whatYouMissed":"m"}
VerdictWithMissed ==
    <<"{", DQ, "c", "o", "r", "r", "e", "c", "t", DQ, ":", "t", "r", "u", "e", ",", DQ,
      "w", "h", "a", "t", "Y", "o", "u", "M", "i", "s", "s", "e", "d", DQ, ":", DQ, "m", DQ,
      "}">>

RotateRequests ==
    {<<Body(JStr(IdOfFile(1)), ic, IF ic.b THEN Absent ELSE JArr(<<Range(Whole(1), Whole(2))>>),
            Absent, Absent),
       Calls(k, then)>> :
        ic \in {Bool(TRUE), Bool(FALSE)}, k \in 0 .. MaxLimited,
        then \in {Reply(Verdict), Reply(VerdictWithMissed), [kind |-> "error"]}}

PuzzleRequestOne == GetPuzzle(1, {"up"}, {NoQuery})
GradeRateLimitedRequest == PostGrade(RotateRequests)
RotateNext == PuzzleRequestOne \/ GradeRateLimitedRequest

\* concurrent calls of getGroqChatCompletionForGrading: a call runs from one await
\* to the next without interruption, and gradingKeyIndex and gradingModelIndex
\* belong to the module, not to the call
Callers == {1, 2}

CallersIdle ==
    /\ web = [calls |-> [c \in Callers |-> [pc |-> "idle", attempt |-> 0, tried |-> <<>>]]]
    /\ grading = GradingStart

\* the loop body up to the await: the credential and the model are read from the
\* module's indices and the request is sent
BeginGrading(c) ==
    /\ web.calls[c].pc = "idle"
    /\ web' = [web EXCEPT !.calls[c] =
                  IF 0 < ApiKeyCount * Len(GRADING_MODELS)
                  THEN [pc |-> "awaiting", attempt |-> 0, tried |-> <<grading>>]
                  ELSE [pc |-> "exhausted", attempt |-> 0, tried |-> <<>>]]
    /\ UNCHANGED <<asm, px, store, dbLog, puzzleCache, gen, grading>>

\* the request is rejected with a 429: the catch block moves the module's indices
\* on, and the next iteration reads them again or the loop ends
CreateRateLimited(c) ==
    /\ web.calls[c].pc = "awaiting"
    /\ grading' = RotateGrading(grading)
    /\ web' = [web EXCEPT !.calls[c] =
                  IF @.attempt + 1 < ApiKeyCount * Len(GRADING_MODELS)
                  THEN [pc |-> "awaiting", attempt |-> @.attempt + 1,
                        tried |-> Append(@.tried, grading')]
                  ELSE [pc |-> "exhausted", attempt |-> @.attempt + 1, tried |-> @.tried]]
    /\ UNCHANGED <<asm, px, store, dbLog, puzzleCache, gen>>

\* the request is answered: the call returns the completion
CreateResolved(c) ==
    /\ web.calls[c].pc = "awaiting"
    /\ web' = [web EXCEPT !.calls[c].pc = "returned"]
    /\ UNCHANGED <<asm, px, store, dbLog, puzzleCache, gen, grading>>

\* the request is rejected with another error: the call rethrows it
CreateRejected(c) ==
    /\ web.calls[c].pc = "awaiting"
    /\ web' = [web EXCEPT !.calls[c].pc = "thrown"]
    /\ UNCHANGED <<asm, px, store, dbLog, puzzleCache, gen, grading>>

ConcurrentNext ==
    \E c \in Callers :
        \/ BeginGrading(c)
        \/ CreateRateLimited(c)
        \/ CreateResolved(c)
        \/ CreateRejected(c)

\* the requests with a language and/or a category filter
MaxFilterPuzzles == 3

Queries ==
    {NoQuery,
     [language |-> <<"Rust">>, category |-> <<>>],
     [language |-> <<"TypeScript">>, category |-> <<>>],
     [language |-> <<>>, category |-> <<"systems">>],
     [language |-> <<"TypeScript">>, category |-> <<"web">>]}

FilteredPuzzleRequest == GetPuzzle(MaxFilterPuzzles, {"up", "down"}, Queries)

(***************************************************************************)
(* Batch tools (scripts/seed, scripts/repair-puzzles,                      *)
(* scripts/regenerate-puzzles): one loop iteration per step.  Each script  *)
(* keeps its own keyIndex and modelIndex.                                  *)
(***************************************************************************)
SEED_MODELS ==
    <<"openai/gpt-oss-120b", "llama-3.3-70b-versatile", "groq/compound",
      "moonshotai/kimi-k2-instruct-0905">>

\* the target of the seed loop, scaled down
TARGET_PER_LANGUAGE == 3
MAX_CONSECUTIVE_ERRORS == 5

\* the whole pool of keys and models
PoolSize == ApiKeyCount * Len(SEED_MODELS)

\* the rate-limit branch of the three catch blocks: next model, after the last model
\* the next key, and after the last key a sleep of one day
RotateOnRateLimit(k) ==
    [modelIndex |-> (k.modelIndex + 1) % Len(SEED_MODELS),
     keyIndex |-> IF (k.modelIndex + 1) % Len(SEED_MODELS) = 0
                  THEN (k.keyIndex + 1) % ApiKeyCount ELSE k.keyIndex,
     sleptDay |-> /\ (k.modelIndex + 1) % Len(SEED_MODELS) = 0
                  /\ (k.keyIndex + 1) % ApiKeyCount = 0]

\* the calls that were rate-limited in a row, counted up to the size of the pool
LimitedOnceMore(n) == Min({n + 1, PoolSize})

\* db-client getPuzzleCountByLanguage
getPuzzleCountByLanguage(rows, language) ==
    Cardinality({i \in 1 .. Len(rows) : rows[i].language = language})

\* db-client updatePuzzleContent
updatePuzzleContent(rows, id, update) ==
    [i \in 1 .. Len(rows) |->
        IF rows[i].id = id
        THEN [rows[i] EXCEPT !.question = update.question, !.answerKey = update.answerKey,
                             !.explanation = update.explanation,
                             !.gradingRubric = update.gradingRubric]
        ELSE rows[i]]

\* the seed loop of one language
SeedLanguage == "TypeScript"
SeedRepos == <<RepoA, RepoB>>
SeedFilesPerRepo == 2

\* the puzzle generatePuzzle builds from file n of a repository
SeedPuzzleOf(repo, n) ==
    AssemblePuzzle(repo.owner, repo.name, Main,
        [kind |-> "file", path |-> <<"f">> \o DecimalChars(n) \o <<".", "t", "s">>,
         content |-> [length |-> 400, lines |-> 40, version |-> "v1"],
         language |-> "TypeScript"],
        <<"c", "1">>,
        [t |-> "raw", question |-> JStr(<<"Q">>), startLine |-> Whole(1),
         endLine |-> Whole(2), answer |-> Undefined, explanation |-> Undefined,
         gradingRubric |-> Undefined, insufficientContextAllowed |-> FALSE],
        Whole(40), SeedLanguage)

\* what generatePuzzle(undefined, {repos: [currentRepo]}) ends with
SeedOutcomes(repo) ==
    {[kind |-> "puzzle", puzzle |-> SeedPuzzleOf(repo, n)] : n \in 1 .. SeedFilesPerRepo}
    \cup {[kind |-> "null"], [kind |-> "thrown", error |-> "GROQ_429"],
          [kind |-> "thrown", error |-> "network"]}

\* seed.ts main before the while loop: count is read from the table, repoIndex is the
\* last repository (SEED_REVERSE); repoIndex is only read modulo repos.length and the
\* model keeps the residue
SeedStart ==
    [tool |-> "seed", pc |-> "loop", count |-> 0, repoIndex |-> Len(SeedRepos) - 1,
     consecutiveErrors |-> 0, keyIndex |-> 0, modelIndex |-> 0, limitedInARow |-> 0,
     last |-> [kind |-> "none", sleptDay |-> FALSE]]

\* repoIndex += seedReverse ? -1 : 1
NextRepoIndex(repoIndex) == (repoIndex + Len(SeedRepos) - 1) % Len(SeedRepos)

\* the catch block for an error that is no rate limit
SeedOtherError(g, kind) ==
    IF g.consecutiveErrors + 1 >= MAX_CONSECUTIVE_ERRORS
    THEN [g EXCEPT !.consecutiveErrors = @ + 1, !.pc = "done",
                   !.last = [kind |-> kind, sleptDay |-> FALSE]]
    ELSE [g EXCEPT !.consecutiveErrors = @ + 1, !.repoIndex = NextRepoIndex(@),
                   !.last = [kind |-> kind, sleptDay |-> FALSE]]

\* one iteration of while (count < TARGET_PER_LANGUAGE)
SeedIteration ==
    /\ gen.tool = "seed" /\ gen.pc = "loop"
    /\ \E outcome \in SeedOutcomes(SeedRepos[gen.repoIndex + 1]), dbUp \in BOOLEAN :
          IF outcome.kind = "puzzle" /\ dbUp
          THEN /\ store' = insertPuzzle(store, outcome.puzzle).rows
               /\ gen' = [gen EXCEPT !.count = @ + 1, !.consecutiveErrors = 0,
                                     !.repoIndex = NextRepoIndex(@),
                                     !.limitedInARow = 0,
                                     !.pc = IF gen.count + 1 < TARGET_PER_LANGUAGE
                                            THEN "loop" ELSE "done",
                                     !.last = [kind |-> "inserted", sleptDay |-> FALSE]]
          ELSE IF outcome.kind = "puzzle"
          THEN /\ store' = store
               /\ gen' = [SeedOtherError(gen, "insertFailed") EXCEPT !.limitedInARow = 0]
          ELSE IF outcome.kind = "null"
          THEN /\ store' = store
               /\ gen' = [gen EXCEPT !.repoIndex = NextRepoIndex(@),
                                     !.last = [kind |-> "null", sleptDay |-> FALSE]]
          ELSE IF outcome.error = "GITHUB_RATE_LIMIT"
          THEN /\ store' = store
               /\ gen' = [gen EXCEPT !.last = [kind |-> "githubLimited", sleptDay |-> FALSE]]
          ELSE IF outcome.error = "GROQ_429"
          THEN /\ store' = store
               /\ \E r \in {RotateOnRateLimit(gen)} :
                     gen' = [gen EXCEPT !.modelIndex = r.modelIndex, !.keyIndex = r.keyIndex,
                                        !.limitedInARow = LimitedOnceMore(@),
                                        !.last = [kind |-> "limited", sleptDay |-> r.sleptDay]]
          ELSE /\ store' = store
               /\ gen' = SeedOtherError(gen, "error")
    /\ UNCHANGED <<asm, px, dbLog, puzzleCache, grading, web>>

\* the table the repair and regenerate passes start from
BatchRows ==
    <<RowOf([SeedPuzzleOf(RepoA, 1) EXCEPT !.gradingRubric = JStr(<<"G">>)], 1),
      RowOf(SeedPuzzleOf(RepoB, 1), 2)>>

\* what the model call of a repair pass ends with: parseRepairResponse's status and
\* the corrected object that JSON.parse reads from its json
CorrectedObjects ==
    {ObjectOf((K_question :> q) @@ (K_startLine :> Whole(2)) @@ (K_endLine :> Whole(1))
              @@ (K_answer :> a) @@ (K_gradingRubric :> r)) :
        q \in {Absent, JStr(<<"Q", "2">>)}, a \in {Absent, JStr(<<"A">>)},
        r \in {Absent, JStr(<<"H">>)}}

RepairOutcomes ==
    {[kind |-> "APPROVED"], [kind |-> "REJECTED", json |-> "none"],
     [kind |-> "REJECTED", json |-> "invalid"],
     [kind |-> "thrown", error |-> "GROQ_429"], [kind |-> "thrown", error |-> "network"]}
    \cup {[kind |-> "REJECTED", json |-> "object", corrected |-> c] : c \in CorrectedObjects}

\* repair-puzzles: the update built from a corrected object
RepairUpdate(corrected, puzzle) ==
    [question |-> ToStringJS(Nullish(Prop(corrected, K_question), puzzle.question)),
     answerKey |->
         Local([span \in {repairJsonToAnswerKey(corrected, Whole(puzzle.file.content.lines))}
                |-> [startLine |-> span.startLine, endLine |-> span.endLine,
                     insufficientContextAllowed |-> FALSE,
                     answer |-> Prop(corrected, K_answer)]]),
     explanation |-> ToStringJS(Nullish(Prop(corrected, K_explanation), puzzle.explanation)),
     gradingRubric |->
         IF Prop(corrected, K_answer).t = "str"
         THEN JStr(<<"Correct answer: ">> \o Prop(corrected, K_answer).cs \o <<".">>)
         ELSE ToStringJS(Nullish(Prop(corrected, K_gradingRubric), puzzle.gradingRubric))]

\* repair-puzzles main before the for loop; puzzles is what getAllPuzzles answered
RepairStart ==
    [tool |-> "repair", pc |-> "loop", i |-> 0, approved |-> 0, rejected |-> 0,
     errors |-> 0, keyIndex |-> 0, modelIndex |-> 0, limitedInARow |-> 0,
     puzzles |-> BatchRows, last |-> [kind |-> "none", sleptDay |-> FALSE]]

\* a retry that does not step back
StepBackNot(i) == i

\* i-- before the continue of the rate-limit branch
StepBack(i) == i - 1

\* the end of an iteration of the for loops, also after continue: i++ and the loop test
NextPuzzle(g) ==
    [g EXCEPT !.i = @ + 1, !.pc = IF g.i + 1 < Len(g.puzzles) THEN "loop" ELSE "done"]

\* one iteration of the for loop of repair-puzzles
RepairIteration ==
    /\ gen.tool = "repair" /\ gen.pc = "loop"
    /\ \E outcome \in RepairOutcomes, dbUp \in BOOLEAN :
          IF outcome.kind = "APPROVED"
          THEN /\ store' = store
               /\ gen' = NextPuzzle([gen EXCEPT !.approved = @ + 1, !.limitedInARow = 0,
                                       !.last = [kind |-> "approved", sleptDay |-> FALSE]])
          ELSE IF outcome.kind = "REJECTED" /\ outcome.json = "none"
          THEN /\ store' = store
               /\ gen' = NextPuzzle([gen EXCEPT !.rejected = @ + 1, !.limitedInARow = 0,
                                       !.last = [kind |-> "noJson", sleptDay |-> FALSE]])
          ELSE IF outcome.kind = "REJECTED" /\ (outcome.json = "invalid" \/ ~dbUp)
          THEN /\ store' = store
               /\ gen' = NextPuzzle([gen EXCEPT !.errors = @ + 1, !.limitedInARow = 0,
                                       !.last = [kind |-> "invalid", sleptDay |-> FALSE]])
          ELSE IF outcome.kind = "REJECTED"
          THEN /\ store' = updatePuzzleContent(store, gen.puzzles[gen.i + 1].id,
                               RepairUpdate(outcome.corrected, gen.puzzles[gen.i + 1]))
               /\ gen' = NextPuzzle([gen EXCEPT !.rejected = @ + 1, !.limitedInARow = 0,
                                       !.last = [kind |-> "updated", sleptDay |-> FALSE]])
          ELSE IF outcome.error = "GROQ_429"
          THEN /\ store' = store
               /\ \E r \in {RotateOnRateLimit(gen)} :
                     gen' = NextPuzzle(
                               [gen EXCEPT !.i = StepBack(@),
                                           !.modelIndex = r.modelIndex, !.keyIndex = r.keyIndex,
                                           !.limitedInARow = LimitedOnceMore(@),
                                           !.last = [kind |-> "limited",
                                                     sleptDay |-> r.sleptDay]])
          ELSE /\ store' = store
               /\ gen' = NextPuzzle([gen EXCEPT !.errors = @ + 1,
                                       !.last = [kind |-> "error", sleptDay |-> FALSE]])
    /\ UNCHANGED <<asm, px, dbLog, puzzleCache, grading, web>>

\* what the model calls of a regenerate pass end with: the object extracted from the
\* reply of every try, or a thrown error
RegenerateObjects ==
    {ObjectOf((K_question :> JStr(<<"Q", "3">>)) @@ (K_startLine :> s)
              @@ (K_endLine :> Whole(1)) @@ (K_answer :> a)) :
        s \in {Whole(2), Whole(0)}, a \in {Absent, JStr(<<"A">>)}}

RegenerateOutcomes ==
    {[kind |-> "reply", obj |-> o] : o \in RegenerateObjects \cup {Null}}
    \cup {[kind |-> "thrown", error |-> "GROQ_429"], [kind |-> "thrown", error |-> "network"]}

\* regenerate-puzzles: the update built from a parsed reply
RegenerateUpdate(parsed, puzzle) ==
    [question |-> ToStringJS(parsed.question),
     answerKey |->
         Local([span \in {toAnswerKey(parsed, Whole(puzzle.file.content.lines))}
                |-> [startLine |-> span.startLine, endLine |-> span.endLine,
                     insufficientContextAllowed |-> FALSE, answer |-> parsed.answer]]),
     explanation |-> ToStringJS(Nullish(parsed.explanation, JStr(<<>>))),
     gradingRubric |->
         IF parsed.answer.t = "str"
         THEN JStr(<<"Correct answer: ">> \o parsed.answer.cs
                   \o <<". Grade by exact match or rubric in explanation.">>)
         ELSE JStr(<<>>)]

\* regenerate-puzzles main before the for loop, without START_FROM_PUZZLE_INDEX
RegenerateStart ==
    [tool |-> "regenerate", pc |-> "loop", i |-> 0, updated |-> 0, skipped |-> 0,
     errors |-> 0, keyIndex |-> 0, modelIndex |-> 0, limitedInARow |-> 0,
     puzzles |-> BatchRows, last |-> [kind |-> "none", sleptDay |-> FALSE]]

\* one iteration of the for loop of regenerate-puzzles
RegenerateIteration ==
    /\ gen.tool = "regenerate" /\ gen.pc = "loop"
    /\ \E outcome \in RegenerateOutcomes, dbUp \in BOOLEAN :
          IF outcome.kind = "reply"
          THEN \E parsed \in {IF outcome.obj.t = "obj" THEN parsedToGenerated(outcome.obj)
                               ELSE Null} :
               IF parsed = Null
               THEN /\ store' = store
                    /\ gen' = NextPuzzle([gen EXCEPT !.skipped = @ + 1, !.limitedInARow = 0,
                                            !.last = [kind |-> "skipped", sleptDay |-> FALSE]])
               ELSE IF ~dbUp
               THEN /\ store' = store
                    /\ gen' = NextPuzzle([gen EXCEPT !.errors = @ + 1, !.limitedInARow = 0,
                                            !.last = [kind |-> "error", sleptDay |-> FALSE]])
               ELSE /\ store' = updatePuzzleContent(store, gen.puzzles[gen.i + 1].id,
                                    RegenerateUpdate(parsed, gen.puzzles[gen.i + 1]))
                    /\ gen' = NextPuzzle([gen EXCEPT !.updated = @ + 1, !.limitedInARow = 0,
                                            !.last = [kind |-> "updated", sleptDay |-> FALSE]])
          ELSE IF outcome.error = "GROQ_429"
          THEN /\ store' = store
               /\ \E r \in {RotateOnRateLimit(gen)} :
                     gen' = NextPuzzle(
                               [gen EXCEPT !.i = StepBack(@),
                                           !.modelIndex = r.modelIndex, !.keyIndex = r.keyIndex,
                                           !.limitedInARow = LimitedOnceMore(@),
                                           !.last = [kind |-> "limited",
                                                     sleptDay |-> r.sleptDay]])
          ELSE /\ store' = store
               /\ gen' = NextPuzzle([gen EXCEPT !.errors = @ + 1,
                                       !.last = [kind |-> "error", sleptDay |-> FALSE]])
    /\ UNCHANGED <<asm, px, dbLog, puzzleCache, grading, web>>

\* a batch tool is started: the seed script on an empty table, a repair or a
\* regenerate pass on a table of two puzzles
BatchStart ==
    /\ \/ gen = SeedStart /\ store = <<>>
       \/ gen = RepairStart /\ store = BatchRows
       \/ gen = RegenerateStart /\ store = BatchRows
    /\ dbLog = [first |-> NoFirst, last |-> [op |-> "none"]]
    /\ puzzleCache = <<>>

BatchNext == SeedIteration \/ RepairIteration \/ RegenerateIteration

(***************************************************************************)
(* The answer selection of the web client (components/CodePuzzleView).     *)
(***************************************************************************)
MaxSelectLine == 5

SelectedRange(s, e) == [startLine |-> s, endLine |-> e]

\* the selections the editor can hand over: startLine <= endLine
Selections ==
    {SelectedRange(s, e) : s \in 1 .. MaxSelectLine, e \in 1 .. MaxSelectLine} \cap
    {r \in [startLine : 1 .. MaxSelectLine, endLine : 1 .. MaxSelectLine] :
        r.startLine <= r.endLine}

LinesOf(r) == r.startLine .. r.endLine

\* ranges that share no line do not overlap
overlapsStrictly(a, b) == a.startLine < b.endLine /\ b.startLine < a.endLine

\* a.startLine <= b.endLine && b.startLine <= a.endLine
overlaps(a, b) == a.startLine <= b.endLine /\ b.startLine <= a.endLine

\* merged.splice(i, 1)
Splice(s, i) == [k \in 1 .. Len(s) - 1 |-> IF k < i THEN s[k] ELSE s[k + 1]]

\* the while loop from the last range down to the first
RECURSIVE MergeInto(_, _, _)
MergeInto(merged, newRange, i) ==
    IF i < 1 THEN [merged |-> merged, newRange |-> newRange]
    ELSE IF overlaps(merged[i], newRange)
    THEN MergeInto(Splice(merged, i),
                   SelectedRange(Min({merged[i].startLine, newRange.startLine}),
                                 Max({merged[i].endLine, newRange.endLine})),
                   i - 1)
    ELSE MergeInto(merged, newRange, i - 1)

\* merged.sort((a, b) => a.startLine - b.startLine): a stable sort
RECURSIVE SortByStartLine(_)
SortByStartLine(s) ==
    IF Len(s) <= 1 THEN s
    ELSE Local([sorted \in {SortByStartLine(SubSeq(s, 1, Len(s) - 1))} |->
         Local([x \in {s[Len(s)]} |->
         Local([k \in {Cardinality({j \in 1 .. Len(sorted) :
                                      sorted[j].startLine <= x.startLine})} |->
             SubSeq(sorted, 1, k) \o <<x>> \o SubSeq(sorted, k + 1, Len(sorted))])])])

\* addSelectionToAnswer: what onSelectedRangesChange is called with, the ranges as they
\* are when it is not called
addSelectionToAnswer(selectedRanges, currentSelection) ==
    IF \E k \in 1 .. Len(selectedRanges) : selectedRanges[k] = currentSelection
    THEN selectedRanges
    ELSE Local([m \in {MergeInto(selectedRanges, currentSelection, Len(selectedRanges))} |->
             SortByStartLine(Append(m.merged, m.newRange))])

\* removeRange: selectedRanges.filter((_, i) => i !== index)
removeRange(selectedRanges, index) ==
    [k \in 1 .. Len(selectedRanges) - 1 |->
        IF k < index THEN selectedRanges[k] ELSE selectedRanges[k + 1]]

\* an empty answer; lines is the set of lines of the added selections that were not
\* removed
SelectStart ==
    /\ web = [selectedRanges |-> <<>>, lines |-> {}, last |-> [op |-> "none"]]
    /\ grading = GradingStart

AddSelection ==
    /\ \E currentSelection \in Selections :
          web' = [selectedRanges |-> addSelectionToAnswer(web.selectedRanges, currentSelection),
                  lines |-> web.lines \cup LinesOf(currentSelection),
                  last |-> [op |-> "add", selection |-> currentSelection,
                            before |-> Len(web.selectedRanges)]]
    /\ UNCHANGED <<asm, px, store, dbLog, puzzleCache, gen, grading>>

RemoveRange ==
    /\ \E index \in 1 .. Len(web.selectedRanges) :
          web' = [selectedRanges |-> removeRange(web.selectedRanges, index),
                  lines |-> web.lines \ LinesOf(web.selectedRanges[index]),
                  last |-> [op |-> "remove", selection |-> web.selectedRanges[index],
                            before |-> Len(web.selectedRanges)]]
    /\ UNCHANGED <<asm, px, store, dbLog, puzzleCache, gen, grading>>

SelectNext == AddSelection \/ RemoveRange

(***************************************************************************)
(* The repository list of the seed script, kept in a file between runs     *)
(* (fetchReposWithPersistence of the script's search client).              *)
(***************************************************************************)
\* the loop's last page (10 in the source) and the page size (100 in the source)
LastSearchPage == 3
SearchPerPage == 2

SearchNames == {"o/r", "o/s"}

SearchItem(n) == [full_name |-> n, default_branch |-> Main]

\* what one page of the search can hold: up to SearchPerPage items, repeats included
SearchPages ==
    UNION {[1 .. n -> {SearchItem(x) : x \in SearchNames}] : n \in 0 .. SearchPerPage}

NoFile == [none |-> TRUE]

\* loadPersistedRepos: the parsed file, null when there is none
loadPersistedRepos(file, language) == IF file = NoFile THEN Null ELSE file

\* existing && existing.language === language
Resumes(existing, language) == existing # Null /\ existing.language = language

\* a set of seen names that starts empty whatever the file holds
SeenOfNothing(existing, language) == {}

\* the names of the persisted repositories
SeenOf(existing, language) ==
    IF Resumes(existing, language)
    THEN {existing.repos[k].full_name : k \in 1 .. Len(existing.repos)}
    ELSE {}

\* for (const item of items): push the items whose full_name was not seen
RECURSIVE PushUnseen(_, _, _, _)
PushUnseen(repos, seen, items, k) ==
    IF k > Len(items) THEN [repos |-> repos, seen |-> seen]
    ELSE IF items[k].full_name \in seen THEN PushUnseen(repos, seen, items, k + 1)
    ELSE PushUnseen(Append(repos, items[k]), seen \cup {items[k].full_name}, items, k + 1)

PersistIdle(file) ==
    [file |-> file, pc |-> "idle", language |-> SeedLanguage, page |-> 0, repos |-> <<>>,
     seen |-> {}, lastFetchedPage |-> 0, result |-> Null, fetched |-> <<>>,
     resumedAt |-> 0, last |-> "none"]

\* no file, nothing fetched; fetched is the list of the pages as they were answered and
\* resumedAt the lastFetchedPage the latest call found in the file
PersistStart == gen = PersistIdle(NoFile) /\ puzzleCache = <<>>

\* a call of fetchReposWithPersistence up to its first request: by the script's loop,
\* at start, after the minute it sleeps on a rate limit, or by a later run of the script
InvokeFetch ==
    /\ gen.pc # "loop"
    /\ \E existing \in {loadPersistedRepos(gen.file, SeedLanguage)} :
          gen' = [gen EXCEPT
                    !.pc = "loop",
                    !.language = SeedLanguage,
                    !.repos = IF Resumes(existing, SeedLanguage) THEN existing.repos ELSE <<>>,
                    !.lastFetchedPage =
                        IF Resumes(existing, SeedLanguage) THEN existing.lastFetchedPage ELSE 0,
                    !.seen = SeenOf(existing, SeedLanguage),
                    !.page = (IF Resumes(existing, SeedLanguage)
                              THEN existing.lastFetchedPage ELSE 0) + 1,
                    !.result = Null,
                    !.resumedAt =
                        IF Resumes(existing, SeedLanguage) THEN existing.lastFetchedPage ELSE 0,
                    !.last = "invoked"]
    /\ UNCHANGED <<asm, px, store, dbLog, puzzleCache, grading, web>>

\* one round of the loop: the request of the page, the save, and the test for a short
\* page; the service answers the page, a rate limit (403, 429), or another failure
FetchPage ==
    /\ gen.pc = "loop" /\ gen.page <= LastSearchPage
    /\ \/ \E items \in SearchPages :
             \E pushed \in {PushUnseen(gen.repos, gen.seen, items, 1)} :
                gen' = [gen EXCEPT
                          !.repos = pushed.repos,
                          !.seen = pushed.seen,
                          !.lastFetchedPage = gen.page,
                          !.file = [language |-> gen.language, repos |-> pushed.repos,
                                    lastFetchedPage |-> gen.page],
                          !.fetched = Append(@, items),
                          !.pc = IF Len(items) < SearchPerPage THEN "returned" ELSE "loop",
                          !.result = IF Len(items) < SearchPerPage THEN pushed.repos ELSE Null,
                          !.page = IF Len(items) < SearchPerPage THEN @ ELSE @ + 1,
                          !.last = "saved"]
       \/ \E status \in {"limited", "failed"} :
             gen' = [gen EXCEPT !.pc = status, !.result = Thrown,
                                !.last = status]
    /\ UNCHANGED <<asm, px, store, dbLog, puzzleCache, grading, web>>

\* the loop ends after its last page: return repos
ReturnRepos ==
    /\ gen.pc = "loop" /\ gen.page > LastSearchPage
    /\ gen' = [gen EXCEPT !.pc = "returned", !.result = gen.repos, !.last = "returned"]
    /\ UNCHANGED <<asm, px, store, dbLog, puzzleCache, grading, web>>

PersistNext == InvokeFetch \/ FetchPage \/ ReturnRepos

(***************************************************************************)
(* Specifications                                                          *)
(***************************************************************************)
\* the state each specification starts in: the part it exercises is constructed, the
\* other parts stay idle
InitAssemble == AsmStart /\ PxIdle /\ StoreIdle /\ GenIdle /\ WebIdle

SpecAssemble == InitAssemble /\ [][AsmNext]_vars

InitParse == PxStart /\ AsmIdle /\ StoreIdle /\ GenIdle /\ WebIdle

SpecParse == InitParse /\ [][Extract]_vars

InitThink == ThinkStart /\ AsmIdle /\ StoreIdle /\ GenIdle /\ WebIdle

SpecThink == InitThink /\ [][StripThink]_vars

\* nothing stored, nothing generated, no request served
InitEmpty == StoreIdle /\ AsmIdle /\ PxIdle /\ GenIdle /\ WebIdle

SpecStore == InitEmpty /\ [][StoreNext]_vars

SpecGen == InitEmpty /\ [][Generate]_vars

SpecSeed == InitEmpty /\ [][GenerateSeeded]_vars

SpecHosting == InitEmpty /\ [][QueryHosting]_vars

\* the server with the requests that exercise validation and grading
SpecGrade == InitEmpty /\ [][GradeNext]_vars

\* the server with the requests that fill the puzzle cache
SpecCache == InitEmpty /\ [][CacheNext]_vars

\* the seed script builds its repository list
InitPersist == PersistStart /\ StoreIdle /\ AsmIdle /\ PxIdle /\ WebIdle

SpecPersist == InitPersist /\ [][PersistNext]_vars

\* the learner selects ranges
InitSelect == SelectStart /\ StoreIdle /\ AsmIdle /\ PxIdle /\ GenIdle

SpecSelect == InitSelect /\ [][SelectNext]_vars

\* a batch tool runs
InitBatch == BatchStart /\ AsmIdle /\ PxIdle /\ WebIdle

SpecBatch == InitBatch /\ [][BatchNext]_vars

\* generation against each answer of the commit request
SpecCommit == InitEmpty /\ [][ResolveCommit]_vars

\* the server with a grading service that limits the rate
SpecRotate == InitEmpty /\ [][RotateNext]_vars

\* two grading calls in flight at once
InitConcurrent == StoreIdle /\ AsmIdle /\ PxIdle /\ GenIdle /\ CallersIdle

SpecConcurrent == InitConcurrent /\ [][ConcurrentNext]_vars

\* the server with puzzle requests that carry filters
SpecFilter == InitEmpty /\ [][FilteredPuzzleRequest]_vars

\* C10: a fenced object with prose around it is extracted as the object that
\* parsing the fence contents directly gives.
ExtractEqualsDirectParse ==
    (px.done /\ px.fenced /\ JsonParse(px.contents).t = "obj") =>
        px.result = JsonParse(px.contents)

\* C4: whatever was inserted, the table holds exactly one row per puzzleId that was
\* accepted, that row is the puzzle first accepted under the id, and an insert of a
\* stored puzzleId ends without an error.
InsertIsIdempotent ==
    /\ \A id \in DOMAIN dbLog.first :
          /\ Cardinality(RowWith(store, id)) = 1
          /\ \A i \in RowWith(store, id) : rowToPuzzle(store[i]) = dbLog.first[id]
    /\ \A i \in 1 .. Len(store) : store[i].puzzleId \in DOMAIN dbLog.first
    /\ (dbLog.last.op = "insert" /\ dbLog.last.duplicate /\ dbLog.last.dbUp) =>
          dbLog.last.outcome = "ok"

\* C4 witness: a stored puzzleId was inserted again, with another question
DuplicateInsertSeen ==
    /\ dbLog.last.op = "insert"
    /\ dbLog.last.duplicate
    /\ dbLog.last.outcome = "ok"
    /\ dbLog.last.puzzle # dbLog.first[dbLog.last.puzzle.puzzleId]
    /\ Len(store) >= 2

\* C5: two runs that assembled a puzzle from the same version of the same file of
\* the same repository gave it the same puzzleId.
SameVersionSameId ==
    \A i, j \in 1 .. Len(gen.runs) :
        (/\ gen.runs[i].kind = "puzzle" /\ gen.runs[j].kind = "puzzle"
         /\ gen.runs[i].puzzle.repo.owner = gen.runs[j].puzzle.repo.owner
         /\ gen.runs[i].puzzle.repo.name = gen.runs[j].puzzle.repo.name
         /\ gen.runs[i].puzzle.file.path = gen.runs[j].puzzle.file.path
         /\ gen.runs[i].puzzle.file.content.version = gen.runs[j].puzzle.file.content.version)
        => gen.runs[i].puzzle.puzzleId = gen.runs[j].puzzle.puzzleId

(***************************************************************************)
(* Grading and the grade request surface                                   *)
(***************************************************************************)
\* every call of the grading service ended in an error
InferenceFailed(calls) ==
    calls.limited >= ApiKeyCount * Len(GRADING_MODELS) \/ calls.then.kind = "error"

\* the reply is a JSON object with a boolean correct
IsJudgment(content) ==
    /\ content.t = "str"
    /\ parseGradeJson(Trim(content.cs)).t = "obj"
    /\ Prop(parseGradeJson(Trim(content.cs)), K_correct).t = "bool"

GradedKnownPuzzle == web.last.op = "grade" /\ web.last.invoked /\ web.last.cached

\* C2: in either mode, when the grading service fails or its reply is no JSON object
\* with a boolean correct, gradeSubmission returns null: no GradeResult is answered.
NonJudgmentIsNeverGraded ==
    (GradedKnownPuzzle
     /\ (InferenceFailed(web.last.calls) \/ ~IsJudgment(web.last.calls.then.content)))
    => web.last.result = Null

RecordedRange(puzzleId) ==
    [startLine |-> getCachedPuzzle(puzzleCache, puzzleId).answerKey.startLine,
     endLine |-> getCachedPuzzle(puzzleCache, puzzleId).answerKey.endLine]

\* C3: a GradeResult has an expectedRange exactly when correct is false, and then it
\* is the (startLine, endLine) recorded in the puzzle's answer key.
ExpectedRangeIffIncorrect ==
    (web.last.op = "grade" /\ web.last.result # Null) =>
        /\ (web.last.result.expectedRange # Null) <=> (web.last.result.correct = FALSE)
        /\ web.last.result.expectedRange # Null =>
              web.last.result.expectedRange
                  = RecordedRange(Prop(web.last.body, K_puzzleId).cs)

\* C3 witness: a range submission judged incorrect was answered the recorded range
IncorrectRangeSubmissionAnswered ==
    /\ web.last.op = "grade"
    /\ web.last.result # Null
    /\ Prop(web.last.body, K_insufficientContext) = Bool(FALSE)
    /\ web.last.result.correct = FALSE
    /\ web.last.result.expectedRange = [startLine |-> Whole(2), endLine |-> Whole(3)]

\* the ranges a body lists in selectedRanges
ListedRanges(body) ==
    IF Prop(body, K_selectedRanges).t # "arr" THEN {}
    ELSE {r \in SeqRange(Prop(body, K_selectedRanges).a) : r.t = "obj"}

\* the legacy selectedRange of a body
LegacyRange(body) ==
    IF Prop(body, K_selectedRange).t = "obj" THEN {Prop(body, K_selectedRange)} ELSE {}

LineOutOfBounds(r) ==
    \E line \in {Prop(r, K_startLine), Prop(r, K_endLine)} :
        line.t = "num" /\ (line.h < 2 \/ line.h > 2 * MaxLineNumber)

ExplanationTooLong(body) ==
    /\ Prop(body, K_optionalExplanation).t = "str"
    /\ Len(Prop(body, K_optionalExplanation).cs) > MAX_EXPLANATION_LENGTH

\* the request breaks an input invariant, whatever range of the body holds the line
ViolatesInvariant(body) ==
    /\ body.t = "obj"
    /\ \/ /\ Prop(body, K_insufficientContext) = Bool(FALSE)
          /\ ListedRanges(body) \cup LegacyRange(body) = {}
       \/ \E r \in ListedRanges(body) \cup LegacyRange(body) : LineOutOfBounds(r)
       \/ ExplanationTooLong(body)

\* the ranges the submission is graded on: those of selectedRanges, the legacy
\* selectedRange when selectedRanges lists none
UsedRanges(body) ==
    IF ListedRanges(body) # {} THEN ListedRanges(body) ELSE LegacyRange(body)

ViolatesUsedInvariant(body) ==
    /\ body.t = "obj"
    /\ \/ Prop(body, K_insufficientContext) = Bool(FALSE) /\ UsedRanges(body) = {}
       \/ \E r \in UsedRanges(body) : LineOutOfBounds(r)
       \/ ExplanationTooLong(body)

\* C8: a grade request with no range and insufficientContext false, with a range line
\* number outside 1..100000, or with an explanation of more than 2000 characters is
\* answered 400 and gradeSubmission is not called.
ViolatingRequestIsRejected ==
    (web.last.op = "grade" /\ ViolatesInvariant(web.last.body)) =>
        (web.last.status = 400 /\ ~web.last.invoked)

\* C8 (amended): the same for the ranges the submission is graded on; a legacy
\* selectedRange next to a selectedRanges that lists a range is not read.
ViolatingUsedRangeIsRejected ==
    (web.last.op = "grade" /\ ViolatesUsedInvariant(web.last.body)) =>
        (web.last.status = 400 /\ ~web.last.invoked)

\* C8 witness: a legacy range beyond the upper limit, read and rejected
LegacyRangeRejected ==
    /\ web.last.op = "grade"
    /\ ViolatesUsedInvariant(web.last.body)
    /\ ListedRanges(web.last.body) = {}
    /\ web.last.status = 400
    /\ web.last.error = "Invalid selectedRange line numbers"
    /\ ~web.last.invoked

\* C9: the answer to a valid submission for a puzzle that is not known differs from
\* the answer to a valid submission whose grading failed.
UnknownPuzzleIsDistinguishable ==
    [][(/\ GradedKnownPuzzle /\ web.last.result = Null
        /\ web'.last.op = "grade" /\ web'.last.invoked /\ ~web'.last.cached)
       => <<web'.last.status, web'.last.error>> # <<web.last.status, web.last.error>>]_vars

(***************************************************************************)
(* The puzzle cache                                                        *)
(***************************************************************************)
\* C6: a grade request for a puzzle that was handed out and is stored, made when the
\* cache no longer holds the puzzle and answered a judgment by the grading service,
\* is graded.
EvictedPuzzleIsStillGraded ==
    (/\ web.last.op = "grade" /\ web.last.invoked /\ ~web.last.cached
     /\ Prop(web.last.body, K_puzzleId).cs \in web.handed
     /\ RowWith(store, Prop(web.last.body, K_puzzleId).cs) # {}
     /\ ~InferenceFailed(web.last.calls) /\ IsJudgment(web.last.calls.then.content))
    => web.last.status = 200

\* C7: the cache never holds more than PUZZLE_CACHE_MAX entries, and an insertion
\* into a full cache removes the oldest entry and no other.
CacheBoundedOldestEvicted ==
    /\ Len(puzzleCache) <= PUZZLE_CACHE_MAX
    /\ web.last.op = "puzzle" =>
          \A i \in 1 .. Len(web.last.insertions) :
              /\ Len(web.last.insertions[i].after) <= PUZZLE_CACHE_MAX
              /\ Len(web.last.insertions[i].before) >= PUZZLE_CACHE_MAX =>
                    SeqRange(web.last.insertions[i].after)
                        = (SeqRange(web.last.insertions[i].before)
                              \ {Head(web.last.insertions[i].before)})
                          \cup {web.last.insertions[i].id}

\* C7 witness: setCachedPuzzle and then generatePuzzle each inserted a puzzle the
\* full cache did not hold
BothInsertionsEvicted ==
    /\ web.last.op = "puzzle"
    /\ Len(web.last.insertions) = 2
    /\ \A i \in 1 .. 2 :
          /\ Len(web.last.insertions[i].before) = PUZZLE_CACHE_MAX
          /\ Len(web.last.insertions[i].after) = PUZZLE_CACHE_MAX
          /\ Head(web.last.insertions[i].before) \notin SeqRange(web.last.insertions[i].after)
              \/ Head(web.last.insertions[i].before) = web.last.insertions[i].id

\* the string member's text between its quotes, for an object text {"k":"..."}
IsStringMember(contents) ==
    /\ Len(contents) >= 8
    /\ SubSeq(contents, 1, 6) = <<"{", DQ, "k", DQ, ":", DQ>>
    /\ SubSeq(contents, Len(contents) - 1, Len(contents)) = <<DQ, "}">>

StringBody(contents) == SubSeq(contents, 7, Len(contents) - 2)

\* the literal line ends of a string body: none of them follows a backslash, and a
\* carriage return directly before a newline is left out of the claim's cases
HasLiteralLineEnd(body) == \E k \in 1 .. Len(body) : body[k] \in {NL, CR}

HasCrLf(body) == \E k \in 1 .. Len(body) - 1 : body[k] = CR /\ body[k + 1] = NL

\* the same body with every literal line end written as the escape of a newline
RECURSIVE LineEndsEscaped(_)
LineEndsEscaped(body) ==
    IF body = <<>> THEN <<>>
    ELSE IF Head(body) \in {NL, CR} THEN <<BSL, "n">> \o LineEndsEscaped(Tail(body))
    ELSE <<Head(body)>> \o LineEndsEscaped(Tail(body))

\* C11: an object text whose string value holds a literal newline or carriage return
\* is extracted, and the recovered value is the value with a newline at that place and
\* the rest of it as written.
LiteralNewlineIsRecovered ==
    (/\ px.done
     /\ IndexOf(px.lead, "{") = 0
     /\ IsStringMember(px.contents)
     /\ HasLiteralLineEnd(StringBody(px.contents))
     /\ ~HasCrLf(StringBody(px.contents))
     /\ JsonParse(StringMember(LineEndsEscaped(StringBody(px.contents)))).t = "obj")
    => px.result = JsonParse(StringMember(LineEndsEscaped(StringBody(px.contents))))

\* the double quotes of s that open or close a JSON string: those not preceded by an
\* odd run of backslashes
BackslashRun(s, k) ==
    Max({n \in 0 .. k - 1 : \A j \in 1 .. n : s[k - j] = BSL})

StringQuotes(s, from) ==
    {k \in from .. Len(s) : s[k] = DQ /\ BackslashRun(s, k) % 2 = 0}

\* position k lies outside every double-quoted string that starts at or after from
OutsideString(s, from, k) ==
    Cardinality({q \in StringQuotes(s, from) : q < k}) % 2 = 0

BraceDepth(s, from, k) ==
    Cardinality({j \in from .. k : s[j] = "{" /\ OutsideString(s, from, j)})
    - Cardinality({j \in from .. k : s[j] = "}" /\ OutsideString(s, from, j)})

\* the brace that closes the one at from, 0 when there is none
ClosingBrace(s, from) ==
    Min({k \in from .. Len(s) :
           s[k] = "}" /\ OutsideString(s, from, k) /\ BraceDepth(s, from, k) = 0}
        \cup {Len(s) + 1}) % (Len(s) + 1)

\* null, or the object that the repaired span from the first opening brace to its
\* closing brace parses to
SpanObject(text) ==
    IF IndexOf(text, "{") = 0 \/ ClosingBrace(text, IndexOf(text, "{")) = 0 THEN Null
    ELSE Local([parsed \in {JsonParse(escapeNewlinesInJsonStrings(RemoveTrailingCommas(
                   SubSeq(text, IndexOf(text, "{"), ClosingBrace(text, IndexOf(text, "{"))),
                   1)))} |->
             IF parsed.t = "obj" THEN parsed ELSE Null])

\* C12: extractJsonObject answers null or the whole object of the span between the
\* first opening brace and its closing brace: null without an opening brace, without
\* its closing brace and when the span does not parse, and the text around the span
\* has no part in the answer.
ExtractIsSpanObjectOrNull ==
    px.done => /\ px.result.t \in {"null", "obj"}
               /\ px.result = SpanObject(stripThinkTags(px.raw))

\* an object is extracted although text with braces surrounds the span
ObjectExtractedFromInsideProse ==
    /\ px.done /\ px.result.t = "obj"
    /\ px.lead = <<"o", "k", ":", NL>>
    /\ px.trail = <<" ", "{", DQ, "j", DQ, ":", "1", "}">>

\* the markers and the other pieces of a text, with each complete block taken out: a
\* block runs from an opening marker to the first closing marker after it
RECURSIVE BlocksRemoved(_)
BlocksRemoved(ps) ==
    IF ps = <<>> THEN <<>>
    ELSE IF Head(ps) \in ThinkOpen /\ \E k \in 2 .. Len(ps) : ps[k] \in ThinkClose
    THEN BlocksRemoved(SubSeq(ps, Min({k \in 2 .. Len(ps) : ps[k] \in ThinkClose}) + 1,
                              Len(ps)))
    ELSE <<Head(ps)>> \o BlocksRemoved(Tail(ps))

\* C13: stripThinkTags leaves a text with an opening marker and no closing marker as
\* it is but for the trim, and takes out of a text each block from its opening marker
\* to the nearest closing marker after it, in either case of letters and across
\* lines, and nothing else but the white space at the ends.
StripThinkFailsOpen ==
    px.done =>
        /\ ((\A k \in 1 .. Len(px.pieces) : px.pieces[k] \notin ThinkClose)
               => px.result = JStr(Trim(px.text)))
        /\ px.result = JStr(Trim(Flatten(BlocksRemoved(px.pieces))))

\* an unterminated opening marker is kept after a complete block was removed
UnterminatedMarkerKept ==
    /\ px.done
    /\ Len(px.pieces) = 4
    /\ px.pieces[1] \in ThinkOpen /\ px.pieces[2] = <<NL>> /\ px.pieces[3] \in ThinkClose
    /\ px.pieces[4] \in ThinkOpen
    /\ px.result = JStr(px.pieces[4])

\* C14: two runs of generatePuzzle with the same non-empty seed, against the same
\* upstream and with the same options, pick the same language and, round by round,
\* the same page, sort order, repository and file.
SeedFixesChoices ==
    \A i, j \in 1 .. Len(gen.runs) :
        (/\ gen.runs[i].seed # <<>>
         /\ gen.runs[i].seed = gen.runs[j].seed
         /\ gen.runs[i].world = gen.runs[j].world
         /\ gen.runs[i].optLanguage = gen.runs[j].optLanguage)
        => /\ gen.runs[i].language = gen.runs[j].language
           /\ gen.runs[i].choices = gen.runs[j].choices

\* two seeded runs took the same several rounds, the second with the puzzle of the
\* first in the cache
SeededRunsRepeatRounds ==
    /\ Len(gen.runs) = 2
    /\ gen.runs[1].seed # <<>> /\ gen.runs[1].seed = gen.runs[2].seed
    /\ gen.runs[1].world = gen.runs[2].world
    /\ gen.runs[1].optLanguage = "" /\ gen.runs[2].optLanguage = ""
    /\ Len(gen.runs[1].choices) >= 2
    /\ gen.runs[1].kind = "puzzle"
    /\ gen.runs[1].choices[1].path # <<>>

\* C15: a puzzle answered to a request with a language filter has that language, and
\* one answered to a request with a category filter has that category, whether it was
\* read from the table or generated.
FilteredPuzzleMatchesFilter ==
    (web.last.op = "puzzle" /\ web.last.status = 200) =>
        /\ web.last.query.language # <<>> => web.last.language = web.last.query.language[1]
        /\ web.last.query.category # <<>> => web.last.category = web.last.query.category[1]

\* C16: a run of generatePuzzle takes at most maxAttempts rounds; it answers null
\* only when every one of them ended without a puzzle, and a run that does not answer
\* null answers a puzzle or throws the rate-limit error.
GenerationEndsWithinBudget ==
    \A i \in 1 .. Len(gen.runs) :
        /\ Len(gen.runs[i].choices) <= maxAttempts
        /\ gen.runs[i].kind = "null" => Len(gen.runs[i].choices) = maxAttempts
        /\ \/ gen.runs[i].kind \in {"null", "puzzle"}
           \/ gen.runs[i].kind = "thrown" /\ gen.runs[i].error = "GITHUB_RATE_LIMIT"

\* C17: what a search, a tree listing and a file fetch hand to their caller for a
\* rate-limit response differs from what they hand over for a not-found or another
\* error response.
RateLimitIsDistinct ==
    \A i, j \in 1 .. Len(gen.runs) :
        (/\ gen.runs[i].query = gen.runs[j].query
         /\ gen.runs[i].status \in RateLimitStatuses
         /\ gen.runs[j].status \in OtherErrorStatuses)
        => gen.runs[i].outcome # gen.runs[j].outcome

\* the rotation indices after n rate-limited attempts: the place in the order
\* credential by credential, model by model, moved on by n
PlaceOf(g) == g.keyIndex * Len(GRADING_MODELS) + g.modelIndex

MovedOn(g, n) ==
    [keyIndex |-> ((PlaceOf(g) + n) % (ApiKeyCount * Len(GRADING_MODELS)))
                      \div Len(GRADING_MODELS),
     modelIndex |-> ((PlaceOf(g) + n) % (ApiKeyCount * Len(GRADING_MODELS)))
                      % Len(GRADING_MODELS)]

\* C18: a grading call whose first attempts are rate-limited moves on by one model
\* for each of them, and to the next credential after the last model; it is answered
\* by the attempt that was not limited, and when every credential and model attempt
\* of the call is limited gradeSubmission answers null.
RateLimitedGradingRotates ==
    [][(web'.last.op = "grade" /\ web'.last.invoked /\ web'.last.cached) =>
          /\ grading' = MovedOn(grading, Min({web'.last.calls.limited,
                                              ApiKeyCount * Len(GRADING_MODELS)}))
          /\ web'.last.calls.limited >= ApiKeyCount * Len(GRADING_MODELS)
                => web'.last.result = Null
          /\ (/\ web'.last.calls.limited < ApiKeyCount * Len(GRADING_MODELS)
              /\ web'.last.calls.then.kind = "completion")
                => web'.last.result # Null]_vars

\* a call was answered after its rate-limited attempts took it over the last model
\* of a credential
GradedAfterRotatingCredential ==
    /\ web.last.op = "grade" /\ web.last.invoked /\ web.last.cached
    /\ web.last.calls.limited = 3
    /\ web.last.result # Null
    /\ grading = [keyIndex |-> 1, modelIndex |-> 1]

\* every pair of a credential and a model
GradingPairs ==
    {[keyIndex |-> k, modelIndex |-> m] :
        k \in 0 .. ApiKeyCount - 1, m \in 0 .. Len(GRADING_MODELS) - 1}

\* C19: under every interleaving of two grading calls, the pairs of credential and
\* model that a call tries are the ones it would try alone (each the successor of
\* the one before it), and a call that reports exhaustion has tried every pair.
ConcurrentCallsAreIndependent ==
    \A c \in Callers :
        LET tried == web.calls[c].tried
        IN  /\ \A k \in 1 .. Len(tried) - 1 : tried[k + 1] = RotateGrading(tried[k])
            /\ web.calls[c].pc = "exhausted"
                  => {tried[k] : k \in 1 .. Len(tried)} = GradingPairs

\* C20: every grade result with correct = true has whatYouMissed = null, in the
\* range mode and in the insufficient-context mode, whatever the model answered.
CorrectResultMissesNothing ==
    (web.last.op = "grade" /\ web.last.status = 200 /\ web.last.result.correct)
        => web.last.result.whatYouMissed = Null

\* the value an object declares for a line: obj.startLine ?? obj.start_line
DeclaredStart(obj) == Nullish(Prop(obj, K_startLine), Prop(obj, K_start_line))
DeclaredEnd(obj) == Nullish(Prop(obj, K_endLine), Prop(obj, K_end_line))
DeclaredQuestion(obj) == Nullish(Prop(obj, K_question), Prop(obj, K_Question))

\* a number that is an integer and at least 1
IsPositiveInteger(v) == v.t = "num" /\ v.h % 2 = 0 /\ v.h >= 2

\* C22: the gate in front of assembly (generation and regeneration) answers
\* "regenerate" exactly when the question is not a string or a declared start or end
\* line value is not a positive integer; every other object is accepted.
GateRejectsExactlyNonPositiveIntegers ==
    asm.by \in {"generate", "regenerate"} =>
        (asm.result = Regenerate
            <=> \/ DeclaredQuestion(asm.obj).t # "str"
                \/ ~IsPositiveInteger(DeclaredStart(asm.obj))
                \/ ~IsPositiveInteger(DeclaredEnd(asm.obj)))

\* a positive integer (twice its value) clamped into [1, n]
ClampedInto(h, n) == Min({h, n})

\* C23: for accepted positive-integer bounds (s, e) and a file of n lines,
\* generatePuzzle assembles the span (min(cs, ce), max(cs, ce)) of the two bounds
\* clamped one by one into [1, n]; (3, 2) over three lines or more gives (2, 3).
SpanIsClampedThenSwapped ==
    (/\ asm.by = "generate"
     /\ IsPositiveInteger(DeclaredStart(asm.obj))
     /\ IsPositiveInteger(DeclaredEnd(asm.obj))
     /\ DeclaredQuestion(asm.obj).t = "str") =>
        LET cs == ClampedInto(DeclaredStart(asm.obj).h, asm.lineCount.h)
            ce == ClampedInto(DeclaredEnd(asm.obj).h, asm.lineCount.h)
        IN  asm.result = AnswerKey(Num(Min({cs, ce})), Num(Max({cs, ce})))

\* the pair (3, 2) was assembled over a file of three lines
ReversedPairAssembled ==
    /\ asm.by = "generate"
    /\ DeclaredStart(asm.obj) = Whole(3)
    /\ DeclaredEnd(asm.obj) = Whole(2)
    /\ asm.lineCount = Whole(3)
    /\ asm.result = AnswerKey(Whole(2), Whole(3))

\* C24: within one run of generatePuzzle no repository is attempted in two rounds,
\* and no file of a repository is put to the model twice.
CandidatesAreDistinct ==
    \A i \in 1 .. Len(gen.runs) :
        \A j, k \in 1 .. Len(gen.runs[i].choices) :
            LET a == gen.runs[i].choices[j]
                b == gen.runs[i].choices[k]
            IN  j < k =>
                    /\ a.repo # <<>> => a.repo # b.repo
                    /\ (a.sent /\ b.sent) => <<a.repo, a.path>> # <<b.repo, b.path>>

\* C26: whatever the commit request ends with (a sha, no sha, a status that is not
\* OK, a network failure), getCommitSha hands a commit identifier to its caller and
\* generatePuzzle is not ended by commit resolution.
CommitResolutionNeverFails ==
    \A i \in 1 .. Len(gen.runs) :
        /\ gen.runs[i].resolved.kind = "sha"
        /\ gen.runs[i].kind = "puzzle"

\* a batch loop's state without its key and model indices and without the record of
\* the last attempt
ProgressOf(g) ==
    [g EXCEPT !.keyIndex = 0, !.modelIndex = 0, !.limitedInARow = 0,
              !.last = [kind |-> "none", sleptDay |-> FALSE]]

\* C21: in the seed, repair and regenerate loops an attempt that ends in the model's
\* rate-limit error changes neither the item position (repoIndex, i) nor a progress
\* counter nor the table: only the key and model indices change, and the loop goes on.
RateLimitLosesNoProgress ==
    [][gen'.last.kind = "limited" =>
          /\ ProgressOf(gen') = ProgressOf(gen)
          /\ gen'.pc = "loop"
          /\ store' = store
          /\ <<gen'.keyIndex, gen'.modelIndex>> # <<gen.keyIndex, gen.modelIndex>>]_vars

\* a repair pass was rate-limited at its second puzzle, after it approved the first
RepairLimitedMidway ==
    /\ gen.tool = "repair"
    /\ gen.last.kind = "limited"
    /\ gen.i = 1
    /\ gen.approved = 1

\* C25: a batch tool sleeps for a day only after every pair of a key and a model was
\* rate-limited in a row, with no answered call in between.
DaySleepOnlyAfterWholePool ==
    gen.last.sleptDay => gen.limitedInARow = PoolSize

\* the stored fields a repair or regenerate pass may not touch
FrameOf(row) ==
    [id |-> row.id, puzzleId |-> row.puzzleId, repo |-> row.repo, file |-> row.file,
     commit |-> row.commit, gradingRubric |-> row.gradingRubric,
     category |-> row.category, language |-> row.language]

\* C27: an iteration of a repair or regenerate pass changes at most the question, the
\* answer key and the explanation of the puzzle it is at; every other field of that row
\* and every other row stay, and an iteration that does not end in an update changes
\* nothing.
PassMutatesOnlyContent ==
    [][gen.tool \in {"repair", "regenerate"} =>
          /\ Len(store') = Len(store)
          /\ \A k \in 1 .. Len(store) :
                /\ FrameOf(store'[k]) = FrameOf(store[k])
                /\ store[k].id # gen.puzzles[gen.i + 1].id => store'[k] = store[k]
          /\ gen'.last.kind # "updated" => store' = store]_vars

\* C30: in the seed loop count is the number of stored puzzles of the language after
\* every iteration, so the loop ends at its target only with that many puzzles stored.
SeedCountIsStoredCount ==
    gen.tool = "seed" => gen.count = getPuzzleCountByLanguage(store, SeedLanguage)

\* C29: after any sequence of added selections and removed ranges the committed
\* ranges share no line with each other, are sorted by startLine, and cover exactly
\* the lines of the added selections that were not removed.
CommittedRangesAreMerged ==
    /\ \A j, k \in 1 .. Len(web.selectedRanges) :
          j < k => /\ web.selectedRanges[j].startLine < web.selectedRanges[k].startLine
                   /\ LinesOf(web.selectedRanges[j]) \cap LinesOf(web.selectedRanges[k]) = {}
    /\ UNION {LinesOf(web.selectedRanges[k]) : k \in 1 .. Len(web.selectedRanges)} = web.lines

\* a selection was added that took two committed ranges into one
SelectionBridgedTwoRanges ==
    /\ web.last.op = "add"
    /\ Len(web.selectedRanges) = web.last.before - 1
    /\ Len(web.selectedRanges) >= 1

\* every item of the answered pages, in the order of the answers
RECURSIVE AllFetched(_)
AllFetched(pages) ==
    IF pages = <<>> THEN <<>>
    ELSE AllFetched(SubSeq(pages, 1, Len(pages) - 1)) \o pages[Len(pages)]

\* the items of s whose full_name no earlier item of s has
RECURSIVE FirstOfEachName(_)
FirstOfEachName(s) ==
    IF s = <<>> THEN <<>>
    ELSE Local([front \in {SubSeq(s, 1, Len(s) - 1)} |->
             IF \E k \in 1 .. Len(front) : front[k].full_name = s[Len(s)].full_name
             THEN FirstOfEachName(front)
             ELSE Append(FirstOfEachName(front), s[Len(s)])])

\* C28: the file holds lastFetchedPage = p with the repositories of the answered
\* pages 1..p, each full_name once; a running call asks for page p + 1 next; the
\* returned list holds no full_name twice.
PersistedPagesAreKept ==
    /\ gen.file = NoFile => gen.fetched = <<>>
    /\ gen.file # NoFile =>
          /\ gen.file.lastFetchedPage = Len(gen.fetched)
          /\ gen.file.repos = FirstOfEachName(AllFetched(gen.fetched))
    /\ gen.pc = "loop" => gen.page = Len(gen.fetched) + 1
    /\ gen.pc = "returned" =>
          /\ gen.result = FirstOfEachName(AllFetched(gen.fetched))
          /\ \A j, k \in 1 .. Len(gen.result) :
                gen.result[j].full_name = gen.result[k].full_name => j = k

\* a call that found saved pages has saved a further page and skipped a repository
\* it already had
ResumedRunSkippedKnownRepo ==
    /\ gen.resumedAt >= 1
    /\ gen.last = "saved"
    /\ Len(gen.fetched) > gen.resumedAt
    /\ Len(gen.file.repos) < Len(AllFetched(gen.fetched))
    /\ Len(gen.fetched[Len(gen.fetched)]) > 0
====
